---- MODULE Spec2Model ----
(***************************************************************************)
(* Session extraction and normalization pipeline of the agent-orchestrator *)
(* daemon: the Claude Code log reader (src/src/claude-code-reader.ts) and   *)
(* the Cursor reader (src/src/cursor-reader.ts).                            *)
(*                                                                          *)
(* JavaScript values are records tagged by the field t.  Strings are       *)
(* tuples of one-character strings, so that parseInt and Date.parse read    *)
(* them character by character.  Numbers are integers; a magnitude is a     *)
(* tuple <<a, b, c>> of limbs in base 10^6 (value a*10^12 + b*10^6 + c),    *)
(* because the epoch-millisecond thresholds of the code exceed the range    *)
(* of the model checker's integers.                                         *)
(***************************************************************************)
EXTENDS Integers, Sequences, FiniteSets, TLC

VARIABLES
    now,            \* wall clock, epoch milliseconds (a magnitude)
    tsInput,        \* argument of the current normalizeTimestamp call
    tsResult,       \* its result (a string, or a thrown error)
    tsPrevInput,    \* argument of the previous call
    tsPrevResult,   \* result of the previous call
    tsPc,           \* "call" before the call runs, "done" after
    pfFile,         \* the log file given to parseSessionFile
    pfPath,         \* the project path given to parseSessionFile
    pfResult,       \* what parseSessionFile returned
    pfPc,           \* "call" before the call runs, "done" after
    reader,         \* the reader an extraction pass runs: "claude" or "cursor"
    env,            \* the files and databases on disk
    passNo,         \* number of the current extraction pass
    pc,             \* "ready" before the pass runs, "done" after
    out,            \* the sessions the pass returned, each with its source key
    emptyCount,     \* conversationsWithNoMessages of the pass
    prevOut,        \* the sessions the previous pass returned
    projects,       \* the projects extracted and merged after the pass
    mpCursor,       \* the Cursor projects given to mergeProjects
    mpClaude,       \* the Claude Code projects given to mergeProjects
    mpResult,       \* what mergeProjects returned
    mpPc,           \* "call" before the call runs, "done" after
    store,          \* the rows of the remote table projects
    synced,         \* the (account, path) pairs whose upsert returned an id
    piComposer,     \* the composer data given to extractProjectInfo
    piFolder,       \* the folder of the workspace of a Copilot session
    piResult,       \* what extractProjectInfo returned
    piFolderResult, \* the project readCopilotSessions took from the folder
    piPc,           \* "call" before the inference runs, "done" after
    aiEnv,          \* process.env: DEVELOPMENT and OPENAI_API_KEY
    aiKind,         \* the generator called: "summary", "keywords" or "title"
    aiMessages,     \* messages.length of the call
    aiRetries,      \* the argument retries
    aiAttempt,      \* the loop variable attempt
    aiRequests,     \* requests sent to the OpenAI API by the call
    aiError,        \* code of the error the last request ended in, if any
    aiResult,       \* where the returned value comes from, or the error thrown
    aiPc,           \* position of the call
    dcPath,         \* the absolute path of a project
    dcDir,          \* the name of its directory under ~/.claude/projects
    dcResult,       \* the projectPath readChatHistories derives from the name
    dcPc,           \* "project", then "stored", then "read"
    chRow,          \* the row of a session in the remote table chat_histories
    smPc,           \* position of the periodic summary run
    smCount,        \* messageCount of the updateSessionSummary call in progress
    smSelected,     \* whether the last getSessionsNeedingSummaryUpdate returned the session
    smRuns,         \* periodic summary runs started
    smSucceeded,    \* an updateSessionSummary of the session has succeeded
    dmRuns,         \* position of each processHistories run of the daemon
    dmMain,         \* position of main
    dmAuth,         \* whether the AuthManager holds a valid session
    active_sessions, \* is_active of the active_sessions row of each user and editor type
    asUserId,       \* userId of the last syncEditorActivity call
    asActivities,   \* what detectAllEditorActivity returned to that call
    asRuns          \* syncEditorActivity calls made

tsVars == <<tsInput, tsResult, tsPrevInput, tsPrevResult, tsPc>>
pfVars == <<pfFile, pfPath, pfResult, pfPc>>
passVars == <<reader, env, passNo, pc, out, emptyCount, prevOut, projects>>
mpVars == <<mpCursor, mpClaude, mpResult, mpPc>>
syncVars == <<store, synced>>
coreVars == <<now, tsVars, pfVars, passVars, mpVars>>
piVars == <<piComposer, piFolder, piResult, piFolderResult, piPc>>
aiVars == <<aiEnv, aiKind, aiMessages, aiRetries, aiAttempt, aiRequests, aiError,
           aiResult, aiPc>>
dcVars == <<dcPath, dcDir, dcResult, dcPc>>
smVars == <<chRow, smPc, smCount, smSelected, smRuns, smSucceeded>>
dmVars == <<dmRuns, dmMain, dmAuth>>
asVars == <<active_sessions, asUserId, asActivities, asRuns>>
restVars == <<syncVars, piVars, aiVars, dcVars, smVars, dmVars, asVars>>
vars == <<coreVars, restVars>>

(***************************************************************************)
(* Bounds of the model.                                                     *)
(***************************************************************************)
MaxDelta == 1       \* sample numbers lie within MaxDelta of each threshold
MaxTicks == 2       \* the wall clock advances at most MaxTicks times
MaxLines == 3       \* a log file given to parseSessionFile has at most MaxLines lines
MaxDirs == 2        \* project directories under ~/.claude/projects
MaxFiles == 2       \* files in those directories, all together
MaxPasses == 2      \* extraction passes over the same data
MaxComposers == 2   \* rows composerData:<id> of the global state database
MaxWorkspaces == 2  \* entries of the workspace storage directory
MaxSessions == 2    \* Copilot sessions in those workspaces, all together
MaxProjects == 2    \* projects in each list given to mergeProjects

(***************************************************************************)
(* Magnitudes: <<a, b, c>> stands for a*10^12 + b*10^6 + c.                 *)
(***************************************************************************)
Limb == 1000 * 1000

BLess(x, y) ==
    \/ x[1] < y[1]
    \/ x[1] = y[1] /\ x[2] < y[2]
    \/ x[1] = y[1] /\ x[2] = y[2] /\ x[3] < y[3]

BZero == <<0, 0, 0>>

\* x * k for 0 <= k <= 1000
BMulSmall(x, k) ==
    LET lo  == x[3] * k
        mid == x[2] * k + (lo \div Limb)
    IN  <<x[1] * k + (mid \div Limb), mid % Limb, lo % Limb>>

\* x + k for 0 <= k < 10^6
BAddSmall(x, k) ==
    LET lo  == x[3] + k
        mid == x[2] + (lo \div Limb)
    IN  <<x[1] + (mid \div Limb), mid % Limb, lo % Limb>>

\* <<quotient, remainder>> of x by d, for 1 <= d <= 1000
BDivSmall(x, d) ==
    LET t1 == (x[1] % d) * Limb + x[2]
        t2 == (t1 % d) * Limb + x[3]
    IN  << <<x[1] \div d, t1 \div d, t2 \div d>>, t2 % d >>

(***************************************************************************)
(* Characters and strings.                                                  *)
(***************************************************************************)
Digits == <<"0", "1", "2", "3", "4", "5", "6", "7", "8", "9">>

IsDigit(c) == \E i \in 1..10 : Digits[i] = c

DigitVal(c) == (CHOOSE i \in 1..10 : Digits[i] = c) - 1

IsSpace(c) == c = " "

\* the decimal digits of n, w of them, zero padded
Pad(n, w) == [i \in 1..w |-> Digits[((n \div (10 ^ (w - i))) % 10) + 1]]

AllDigits(s) == \A i \in 1..Len(s) : IsDigit(s[i])

\* the value of a tuple of at most nine digits
RECURSIVE DigitsVal(_)
DigitsVal(s) ==
    IF s = <<>> THEN 0
    ELSE DigitsVal(SubSeq(s, 1, Len(s) - 1)) * 10 + DigitVal(s[Len(s)])

(***************************************************************************)
(* JavaScript values.                                                       *)
(***************************************************************************)
JsUndefined == [t |-> "undefined"]
JsNull == [t |-> "null"]
JsNaN == [t |-> "NaN"]
JsString(s) == [t |-> "string", s |-> s]
JsNumber(neg, mag) == [t |-> "number", neg |-> neg, mag |-> mag]
JsThrow(e) == [t |-> "throw", e |-> e]
JsArray(items) == [t |-> "array", items |-> items]

\* v.f, for a value v that is not null or undefined
Field(v, f) == IF v.t = "object" /\ f \in DOMAIN v THEN v[f] ELSE JsUndefined

\* v?.f
OptField(v, f) == IF v.t \in {"undefined", "null"} THEN JsUndefined ELSE Field(v, f)

\* !v
JsFalsy(v) ==
    \/ v.t \in {"undefined", "null", "NaN"}
    \/ v.t = "string" /\ v.s = <<>>
    \/ v.t = "number" /\ v.mag = BZero

\* a || b
JsOr(a, b) == IF JsFalsy(a) THEN b ELSE a

\* v > m, for a number v and a magnitude m
JsGreater(v, m) == v.t = "number" /\ ~v.neg /\ BLess(m, v.mag)

\* Number.prototype.toString of an integer
RECURSIVE MagDigits(_)
MagDigits(m) ==
    IF m = BZero THEN <<>>
    ELSE LET qr == BDivSmall(m, 10) IN Append(MagDigits(qr[1]), Digits[qr[2] + 1])

NumberToString(v) ==
    IF v.mag = BZero THEN <<"0">>
    ELSE (IF v.neg THEN <<"-">> ELSE <<>>) \o MagDigits(v.mag)

\* parseInt(s, 10): leading white space, an optional sign, then the longest
\* run of decimal digits; NaN when that run is empty
RECURSIVE SkipSpace(_)
SkipSpace(s) == IF s # <<>> /\ IsSpace(s[1]) THEN SkipSpace(Tail(s)) ELSE s

RECURSIVE DigitRun(_, _)
DigitRun(s, acc) ==
    IF s # <<>> /\ IsDigit(s[1])
    THEN DigitRun(Tail(s), BAddSmall(BMulSmall(acc, 10), DigitVal(s[1])))
    ELSE acc

parseInt(s) ==
    LET OfTrimmed(t) ==
            LET OfBody(neg, body) ==
                    LET OfRun(mag) == JsNumber(neg /\ mag # BZero, mag)
                    IN  IF body = <<>> \/ ~IsDigit(body[1]) THEN JsNaN
                        ELSE OfRun(DigitRun(body, BZero))
            IN  OfBody(t # <<>> /\ t[1] = "-",
                       IF t # <<>> /\ t[1] \in {"-", "+"} THEN Tail(t) ELSE t)
    IN  OfTrimmed(SkipSpace(s))

(***************************************************************************)
(* Date: a time value is a day number relative to 1970-01-01 and the       *)
(* milliseconds within that day (Day(t) and TimeWithinDay(t) of the         *)
(* language definition); an invalid Date has no time value.                 *)
(***************************************************************************)
InvalidDate == [valid |-> FALSE]

MsPerDay == 86400 * 1000

\* TimeClip: the largest time value, 8.64 * 10^15 ms
MaxTime == <<8640, 0, 0>>

\* new Date(v) for a number v
DateFromNumber(v) ==
    LET Make(q, r) ==
            IF ~v.neg THEN [valid |-> TRUE, day |-> q, ms |-> r]
            ELSE IF r = 0 THEN [valid |-> TRUE, day |-> 0 - q, ms |-> 0]
            ELSE [valid |-> TRUE, day |-> 0 - q - 1, ms |-> MsPerDay - r]
        ByThousand(d1) ==
            LET ByHundred(d2) ==
                    LET By864(d3) == Make(d3[1][2] * Limb + d3[1][3],
                                          (d3[2] * 100 + d2[2]) * 1000 + d1[2])
                    IN  By864(BDivSmall(d2[1], 864))
            IN  ByHundred(BDivSmall(d1[1], 100))
    IN  IF v.t # "number" \/ BLess(MaxTime, v.mag) THEN InvalidDate
        ELSE ByThousand(BDivSmall(v.mag, 1000))

\* new Date(): the wall clock
NewDate == DateFromNumber(JsNumber(FALSE, now))

\* year, month and day of a day number (proleptic Gregorian calendar)
CivilFromDays(day) ==
    LET OfEra(era, doe) ==
            LET OfYear(yoe) ==
                    LET OfDay(doy) ==
                            LET OfMonth(mp) ==
                                    [y |-> yoe + era * 400 + (IF mp < 10 THEN 0 ELSE 1),
                                     m |-> IF mp < 10 THEN mp + 3 ELSE mp - 9,
                                     d |-> doy - ((153 * mp + 2) \div 5) + 1]
                            IN  OfMonth((5 * doy + 2) \div 153)
                    IN  OfDay(doe - (365 * yoe + (yoe \div 4) - (yoe \div 100)))
            IN  OfYear((doe - (doe \div 1460) + (doe \div 36524) - (doe \div 146096))
                           \div 365)
        OfShifted(z) == OfEra(z \div 146097, z - (z \div 146097) * 146097)
    IN  OfShifted(day + 719468)

DaysFromCivil(y0, m, d) ==
    LET y   == IF m <= 2 THEN y0 - 1 ELSE y0
        era == y \div 400
        yoe == y - era * 400
        doy == ((153 * (IF m > 2 THEN m - 3 ELSE m + 9) + 2) \div 5) + d - 1
        doe == yoe * 365 + (yoe \div 4) - (yoe \div 100) + doy
    IN  era * 146097 + doe - 719468

IsLeap(y) == y % 4 = 0 /\ (y % 100 # 0 \/ y % 400 = 0)

DaysInMonth(y, m) ==
    IF m = 2 THEN (IF IsLeap(y) THEN 29 ELSE 28)
    ELSE IF m \in {4, 6, 9, 11} THEN 30 ELSE 31

\* Date.prototype.toISOString: YYYY-MM-DDTHH:mm:ss.sssZ, the year written
\* with a sign and six digits outside 0..9999; RangeError on an invalid Date
DateToISOString(date) ==
    LET Year(y) == IF y >= 0 /\ y <= 9999 THEN Pad(y, 4)
                   ELSE IF y < 0 THEN <<"-">> \o Pad(0 - y, 6)
                   ELSE <<"+">> \o Pad(y, 6)
        Iso(c, ms) ==
            JsString(Year(c.y) \o <<"-">> \o Pad(c.m, 2) \o <<"-">> \o Pad(c.d, 2)
                     \o <<"T">> \o Pad(ms \div 3600000, 2)
                     \o <<":">> \o Pad((ms \div 60000) % 60, 2)
                     \o <<":">> \o Pad((ms \div 1000) % 60, 2)
                     \o <<".">> \o Pad(ms % 1000, 3) \o <<"Z">>)
    IN  IF ~date.valid THEN JsThrow("RangeError")
        ELSE Iso(CivilFromDays(date.day), date.ms)

\* Date.parse of the date-time string format, in its UTC forms:
\*   YYYY-MM-DD, YYYY-MM-DDTHH:mm:ssZ, YYYY-MM-DDTHH:mm:ss.sssZ,
\* the year being YYYY or a sign and six digits.  Any other string is not
\* in the format and gives an invalid Date.
DateParse(s) ==
    LET Parse(signed, yd, r, n) ==
            LET dateOk == /\ n >= 6
                          /\ AllDigits(yd)
                          /\ r[1] = "-" /\ r[4] = "-"
                          /\ AllDigits(SubSeq(r, 2, 3)) /\ AllDigits(SubSeq(r, 5, 6))
                timeOk == \/ n = 6
                          \/ /\ n \in {16, 20}
                             /\ r[7] = "T" /\ r[10] = ":" /\ r[13] = ":" /\ r[n] = "Z"
                             /\ AllDigits(SubSeq(r, 8, 9)) /\ AllDigits(SubSeq(r, 11, 12))
                             /\ AllDigits(SubSeq(r, 14, 15))
                             /\ (n = 20 => r[16] = "." /\ AllDigits(SubSeq(r, 17, 19)))
                Fields(y0, y, m, d, h, mi, sc, ms) ==
                    IF \/ (signed /\ s[1] = "-" /\ y0 = 0)
                       \/ m < 1 \/ m > 12 \/ d < 1 \/ d > DaysInMonth(y, m)
                       \/ h > 23 \/ mi > 59 \/ sc > 59
                    THEN InvalidDate
                    ELSE [valid |-> TRUE, day |-> DaysFromCivil(y, m, d),
                          ms |-> ((h * 60 + mi) * 60 + sc) * 1000 + ms]
                Year(y0) ==
                    Fields(y0, IF signed /\ s[1] = "-" THEN 0 - y0 ELSE y0,
                           DigitsVal(SubSeq(r, 2, 3)), DigitsVal(SubSeq(r, 5, 6)),
                           IF n = 6 THEN 0 ELSE DigitsVal(SubSeq(r, 8, 9)),
                           IF n = 6 THEN 0 ELSE DigitsVal(SubSeq(r, 11, 12)),
                           IF n = 6 THEN 0 ELSE DigitsVal(SubSeq(r, 14, 15)),
                           IF n = 20 THEN DigitsVal(SubSeq(r, 17, 19)) ELSE 0)
            IN  IF ~(dateOk /\ timeOk) THEN InvalidDate ELSE Year(DigitsVal(yd))
        Signed(signed) ==
            IF signed THEN Parse(signed, SubSeq(s, 2, 7), SubSeq(s, 8, Len(s)), Len(s) - 7)
            ELSE Parse(signed, SubSeq(s, 1, 4), SubSeq(s, 5, Len(s)), Len(s) - 4)
    IN  Signed(s # <<>> /\ s[1] \in {"+", "-"})

\* a string that parses as a date of the date-time string format
IsIsoDateString(v) == v.t = "string" /\ DateParse(v.s).valid

(***************************************************************************)
(* normalizeTimestamp (cursor-reader.ts).                                   *)
(***************************************************************************)
\* 946684800000 and 946684800: 2000-01-01T00:00:00Z in ms and in s
MsThreshold == <<0, 946684, 800000>>
SecThreshold == <<0, 946, 684800>>

\* NumericDate with the seconds tier left unscaled
NumericDateUnscaled(timestamp) ==
    IF timestamp.t = "number" /\ JsGreater(timestamp, MsThreshold)
    THEN DateFromNumber(timestamp)
    ELSE IF timestamp.t = "number" /\ JsGreater(timestamp, SecThreshold)
    THEN DateFromNumber(timestamp)
    ELSE NewDate

\* lines 164-176: the Date of the numeric tiers and of the wall-clock
\* fallback, each of which the code converts with toISOString
NumericDate(timestamp) ==
    IF timestamp.t = "number" /\ JsGreater(timestamp, MsThreshold)
    THEN DateFromNumber(timestamp)
    ELSE IF timestamp.t = "number" /\ JsGreater(timestamp, SecThreshold)
    THEN DateFromNumber(JsNumber(FALSE, BMulSmall(timestamp.mag, 1000)))
    ELSE NewDate

\* lines 148-162: a string is a numeric string when parseInt gives a
\* positive number, else it is tried as a date
StringDate(timestamp) ==
    LET OfNumber(numericTimestamp) ==
            IF numericTimestamp.t = "number" /\ JsGreater(numericTimestamp, BZero)
            THEN NumericDate(numericTimestamp)
            ELSE LET OfDate(date) == IF date.valid THEN date ELSE NewDate
                 IN  OfDate(DateParse(timestamp.s))
    IN  OfNumber(parseInt(timestamp.s))

\* lines 143-177
normalizeTimestamp(timestamp) ==
    DateToISOString(IF JsFalsy(timestamp) THEN NewDate
                    ELSE IF timestamp.t = "string" THEN StringDate(timestamp)
                    ELSE NumericDate(timestamp))

(***************************************************************************)
(* Paths.                                                                   *)
(***************************************************************************)
EndsWith(s, suffix) ==
    Len(s) >= Len(suffix) /\ SubSeq(s, Len(s) - Len(suffix) + 1, Len(s)) = suffix

JsonlExt == <<".", "j", "s", "o", "n", "l">>

\* path.basename(p): the part after the last "/", trailing "/" dropped
RECURSIVE Basename(_)
Basename(p) ==
    IF p = <<>> THEN <<>>
    ELSE IF p[Len(p)] = "/" THEN Basename(SubSeq(p, 1, Len(p) - 1))
    ELSE IF \E i \in 1..Len(p) : p[i] = "/"
    THEN LET i == CHOOSE j \in 1..Len(p) :
                      p[j] = "/" /\ \A k \in (j + 1)..Len(p) : p[k] # "/"
         IN  SubSeq(p, i + 1, Len(p))
    ELSE p

\* path.basename(p, ext)
BasenameExt(p, ext) ==
    LET Strip(b) == IF EndsWith(b, ext) /\ Len(b) > Len(ext)
                    THEN SubSeq(b, 1, Len(b) - Len(ext)) ELSE b
    IN  Strip(Basename(p))

(***************************************************************************)
(* parseSessionFile (claude-code-reader.ts).  A line of a log file is       *)
(*   [k |-> "blank"]    white space only: dropped by the filter of line 56  *)
(*   [k |-> "garbage"]  not JSON: JSON.parse throws                         *)
(*   [k |-> "json", data |-> v]  JSON of the value v; reading a property    *)
(*                      of v throws when v is null                          *)
(***************************************************************************)
\* the line makes the body of the loop throw (lines 68-71)
LineThrows(line) ==
    \/ line.k = "garbage"
    \/ line.k = "json" /\ line.data.t = "null"

\* data.timestamp?.toString() || ''
TimestampString(data) ==
    LET ts == Field(data, "timestamp")
    IN  IF ts.t = "string" THEN ts
        ELSE IF ts.t = "number" THEN JsString(NumberToString(ts))
        ELSE JsString(<<>>)

\* lines 87-89
ContentParts(content) == IF content.t = "array" THEN content.items ELSE <<content>>

\* lines 91-107 and 120-136: one message per string part and per text part
RECURSIVE PartMessages(_, _, _)
PartMessages(parts, role, timestamp) ==
    LET Entry(display) ==
            [display |-> display, role |-> role,
             timestamp |-> JsOr(timestamp, DateToISOString(NewDate))]
        OfPart(part) ==
            IF part.t = "string" THEN <<Entry(part)>>
            ELSE IF /\ OptField(part, "type") = JsString(<<"t", "e", "x", "t">>)
                    /\ ~JsFalsy(Field(part, "text"))
            THEN <<Entry(Field(part, "text"))>>
            ELSE <<>>
    IN  IF parts = <<>> THEN <<>>
        ELSE OfPart(parts[1]) \o PartMessages(Tail(parts), role, timestamp)

TypeUser == JsString(<<"u", "s", "e", "r">>)
TypeAssistant == JsString(<<"a", "s", "s", "i", "s", "t", "a", "n", "t">>)
TypeSummary == JsString(<<"s", "u", "m", "m", "a", "r", "y">>)

\* ParseData keeping the first summary of the file rather than the last
ParseDataFirstSummary(st, data) ==
    LET WithSummary(s0) ==
            IF /\ Field(data, "type") = TypeSummary /\ ~JsFalsy(Field(data, "summary"))
               /\ JsFalsy(s0.summary)
            THEN [s0 EXCEPT !.summary = Field(data, "summary")] ELSE s0
        WithSessionId(s1) ==
            IF ~JsFalsy(Field(data, "sessionId"))
            THEN [s1 EXCEPT !.sessionId = Field(data, "sessionId")] ELSE s1
        WithMessages(s2, type, content, timestamp) ==
            IF type \in {TypeUser, TypeAssistant} /\ ~JsFalsy(content)
            THEN [s2 EXCEPT
                    !.firstTimestamp =
                        IF JsFalsy(s2.firstTimestamp) THEN timestamp ELSE @,
                    !.lastTimestamp = timestamp,
                    !.messages = @ \o PartMessages(ContentParts(content),
                        IF type = TypeUser THEN "user" ELSE "assistant", timestamp)]
            ELSE s2
    IN  WithMessages(WithSessionId(WithSummary(st)), Field(data, "type"),
                     OptField(Field(data, "message"), "content"), TimestampString(data))

\* lines 68-137: the body of the loop, on a line that does not throw
ParseData(st, data) ==
    LET WithSummary(s0) ==
            IF Field(data, "type") = TypeSummary /\ ~JsFalsy(Field(data, "summary"))
            THEN [s0 EXCEPT !.summary = Field(data, "summary")] ELSE s0
        WithSessionId(s1) ==
            IF ~JsFalsy(Field(data, "sessionId"))
            THEN [s1 EXCEPT !.sessionId = Field(data, "sessionId")] ELSE s1
        WithMessages(s2, type, content, timestamp) ==
            IF type \in {TypeUser, TypeAssistant} /\ ~JsFalsy(content)
            THEN [s2 EXCEPT
                    !.firstTimestamp =
                        IF JsFalsy(s2.firstTimestamp) THEN timestamp ELSE @,
                    !.lastTimestamp = timestamp,
                    !.messages = @ \o PartMessages(ContentParts(content),
                        IF type = TypeUser THEN "user" ELSE "assistant", timestamp)]
            ELSE s2
    IN  WithMessages(WithSessionId(WithSummary(st)), Field(data, "type"),
                     OptField(Field(data, "message"), "content"), TimestampString(data))

\* ParseLines leaving the loop at the first line that throws
RECURSIVE ParseLinesAbort(_, _)
ParseLinesAbort(st, lines) ==
    IF lines = <<>> THEN st
    ELSE IF LineThrows(lines[1]) THEN st
    ELSE ParseLinesAbort(ParseData(st, lines[1].data), Tail(lines))

\* lines 66-142: the loop; a line that throws is skipped (lines 138-141)
RECURSIVE ParseLines(_, _)
ParseLines(st, lines) ==
    IF lines = <<>> THEN st
    ELSE IF LineThrows(lines[1]) THEN ParseLines(st, Tail(lines))
    ELSE ParseLines(ParseData(st, lines[1].data), Tail(lines))

\* line 56: the lines that are not blank
NonBlank(lines) == SelectSeq(lines, LAMBDA l : l.k # "blank")

\* lines 60-64
ParseStart(name) ==
    [messages |-> <<>>, sessionId |-> JsString(BasenameExt(name, JsonlExt)),
     firstTimestamp |-> JsNull, lastTimestamp |-> JsNull, summary |-> JsNull]

\* lines 53-171; file is [name, readable, lines], readFileSync throwing on
\* a file that is not readable
parseSessionFile(file, projectPath) ==
    LET History(st, projectName) ==
            [t |-> "object",
             id |-> st.sessionId,
             timestamp |-> JsOr(st.lastTimestamp,
                                JsOr(st.firstTimestamp, DateToISOString(NewDate))),
             messages |-> st.messages,
             agent_type |-> "claude_code",
             metadata |-> [projectPath |-> JsString(projectPath),
                           source |-> "claude_code",
                           projectName |-> IF JsFalsy(projectName)
                                           THEN JsUndefined ELSE projectName,
                           summary |-> IF JsFalsy(st.summary)
                                       THEN JsUndefined ELSE st.summary]]
    IN  IF ~file.readable THEN JsNull
        ELSE IF NonBlank(file.lines) = <<>> THEN JsNull
        ELSE History(ParseLines(ParseStart(file.name), NonBlank(file.lines)),
                     IF projectPath # <<>> THEN JsString(Basename(projectPath))
                     ELSE JsUndefined)


(***************************************************************************)
(* readChatHistories (claude-code-reader.ts).  The Claude Code side of env  *)
(* is [exists, lookback, dirs]: whether ~/.claude/projects exists, whether  *)
(* the caller gave lookbackDays, and the entries of the directory, each     *)
(*   [name, stat, list, files]   stat "dir", "file" or "throws" (statSync), *)
(*                               list FALSE when readdirSync throws,        *)
(* a file being [name, stat, readable, lines] with stat "fresh", "old"      *)
(* (modified before the cutoff date) or "throws".                           *)
(***************************************************************************)
\* line 207: projectDir.replace(/^-/, '/').replace(/-/g, '/')
DecodeProjectDir(name) == [i \in 1..Len(name) |-> IF name[i] = "-" THEN "/" ELSE name[i]]

\* KeepHistory without the test on the number of messages
KeepHistoryNonNull(history) == history.t # "null"

\* line 226
KeepHistory(history) == history.t # "null" /\ Len(history.messages) > 0

\* lines 212-229: the files of one project directory, from file fi on;
\* threw tells that statSync threw, which ends the pass (line 233)
RECURSIVE ReadSessionFiles(_, _, _, _, _)
ReadSessionFiles(files, fi, projectPath, cutoff, di) ==
    LET Kept(history) ==
            IF KeepHistory(history) THEN <<[src |-> <<"file", di, fi>>, h |-> history]>>
            ELSE <<>>
        Then(mine, rest) == [out |-> mine \o rest.out, threw |-> rest.threw]
        OfFile(f) ==
            IF ~EndsWith(f.name, JsonlExt)
            THEN ReadSessionFiles(files, fi + 1, projectPath, cutoff, di)
            ELSE IF cutoff /\ f.stat = "throws" THEN [out |-> <<>>, threw |-> TRUE]
            ELSE IF cutoff /\ f.stat = "old"
            THEN ReadSessionFiles(files, fi + 1, projectPath, cutoff, di)
            ELSE Then(Kept(parseSessionFile(f, projectPath)),
                      ReadSessionFiles(files, fi + 1, projectPath, cutoff, di))
    IN  IF fi > Len(files) THEN [out |-> <<>>, threw |-> FALSE]
        ELSE OfFile(files[fi])

\* lines 200-230: the project directories, from directory di on
RECURSIVE ReadProjectDirs(_, _, _)
ReadProjectDirs(dirs, di, cutoff) ==
    LET After(rest, mine) == [out |-> mine.out \o rest.out, threw |-> rest.threw]
        Then(mine) ==
            IF mine.threw THEN mine
            ELSE After(ReadProjectDirs(dirs, di + 1, cutoff), mine)
        OfDir(d) ==
            IF d.stat = "throws" THEN [out |-> <<>>, threw |-> TRUE]
            ELSE IF d.stat = "file" THEN ReadProjectDirs(dirs, di + 1, cutoff)
            ELSE IF ~d.list THEN [out |-> <<>>, threw |-> TRUE]
            ELSE Then(ReadSessionFiles(d.files, 1, DecodeProjectDir(d.name), cutoff, di))
    IN  IF di > Len(dirs) THEN [out |-> <<>>, threw |-> FALSE]
        ELSE OfDir(dirs[di])

\* lines 176-238: the sessions returned, each tagged with the directory and
\* file it came from
readChatHistories(e) ==
    IF ~e.exists THEN <<>>
    ELSE ReadProjectDirs(e.dirs, 1, e.lookback).out


(***************************************************************************)
(* Strings of the Cursor reader.                                            *)
(***************************************************************************)
\* s.trim()
RECURSIVE TrimRight(_)
TrimRight(s) ==
    IF s # <<>> /\ IsSpace(s[Len(s)]) THEN TrimRight(SubSeq(s, 1, Len(s) - 1)) ELSE s

Trim(s) == TrimRight(SkipSpace(s))

\* xs.join(sep), for a list of strings
RECURSIVE Join(_, _)
Join(xs, sep) ==
    IF xs = <<>> THEN <<>>
    ELSE IF Len(xs) = 1 THEN xs[1]
    ELSE xs[1] \o sep \o Join(Tail(xs), sep)

\* s.split('/')
RECURSIVE Split(_)
Split(s) ==
    IF \E i \in 1..Len(s) : s[i] = "/"
    THEN LET i == CHOOSE j \in 1..Len(s) : s[j] = "/" /\ \A k \in 1..(j - 1) : s[k] # "/"
         IN  <<SubSeq(s, 1, i - 1)>> \o Split(SubSeq(s, i + 1, Len(s)))
    ELSE <<s>>

\* parts.indexOf(x), counted from 1; 0 when x is no element
IndexOf(parts, x) ==
    IF \E i \in 1..Len(parts) : parts[i] = x
    THEN CHOOSE i \in 1..Len(parts) : parts[i] = x /\ \A k \in 1..(i - 1) : parts[k] # x
    ELSE 0

Developer == <<"D", "e", "v", "e", "l", "o", "p", "e", "r">>

\* a string holding JSON text: s is the text, parsed what JSON.parse gives
\* for it (a value, or the SyntaxError it throws)
JsonText(raw, parsed) == [t |-> "string", s |-> raw, parsed |-> parsed]
NotJson(raw) == JsonText(raw, JsThrow("SyntaxError"))

JsonParse(v) == IF "parsed" \in DOMAIN v THEN v.parsed ELSE JsThrow("SyntaxError")

(***************************************************************************)
(* parseRichText (cursor-reader.ts, lines 115-137).                         *)
(***************************************************************************)
\* lines 121-128 over a list of nodes: the texts collected, depth first, and
\* whether reading a node threw
RECURSIVE ExtractText(_)
ExtractText(nodes) ==
    LET Stop == [texts |-> <<>>, threw |-> TRUE]
        Own(text) == IF JsFalsy(text) THEN <<>> ELSE <<text.s>>
        Below(children) ==
            IF JsFalsy(children) THEN [texts |-> <<>>, threw |-> FALSE]
            ELSE IF children.t # "array" THEN Stop
            ELSE ExtractText(children.items)
        After(mine, rest) == [texts |-> mine \o rest.texts, threw |-> rest.threw]
        Then(own, below) ==
            IF below.threw THEN Stop
            ELSE After(own \o below.texts, ExtractText(Tail(nodes)))
        OfNode(node) ==
            IF node.t \in {"null", "undefined"} THEN Stop
            ELSE Then(Own(Field(node, "text")), Below(Field(node, "children")))
    IN  IF nodes = <<>> THEN [texts |-> <<>>, threw |-> FALSE]
        ELSE OfNode(nodes[1])

parseRichText(richText) ==
    LET OfTexts(got) ==
            IF got.threw THEN JsString(richText.s)
            ELSE JsString(Join(got.texts, <<" ">>))
        OfChildren(children) ==
            IF JsFalsy(children) \/ children.t # "array" THEN JsString(richText.s)
            ELSE OfTexts(ExtractText(children.items))
        OfData(data) ==
            IF data.t \in {"throw", "null"} THEN JsString(richText.s)
            ELSE OfChildren(OptField(Field(data, "root"), "children"))
    IN  OfData(JsonParse(richText))

(***************************************************************************)
(* extractProjectInfo (cursor-reader.ts, lines 182-234).                    *)
(***************************************************************************)
NoProject == [projectName |-> JsUndefined, projectPath |-> JsUndefined]

\* lines 204-209 (and 221-226, 407-412): the project of a path, which is
\* the segment that follows the segment Developer
ProjectOf(path) ==
    LET At(parts, devIndex) ==
            IF devIndex >= 1 /\ devIndex + 1 <= Len(parts)
            THEN [projectName |-> JsString(parts[devIndex + 1]),
                  projectPath |-> JsString(Join(SubSeq(parts, 1, devIndex + 1), <<"/">>))]
            ELSE NoProject
        OfParts(parts) == At(parts, IndexOf(parts, Developer))
    IN  OfParts(Split(path))

\* lines 201-213 and 218-230: the first selection whose path holds the
\* segment Developer followed by another segment; threw when a selection is
\* null or its path no string
RECURSIVE FirstProject(_)
FirstProject(selections) ==
    LET Result(project, threw) ==
            [projectName |-> project.projectName, projectPath |-> project.projectPath,
             threw |-> threw]
        OfProject(project) ==
            IF project = NoProject THEN FirstProject(Tail(selections))
            ELSE Result(project, FALSE)
        OfPath(selection, fsPath) ==
            IF selection.t \in {"null", "undefined"} THEN Result(NoProject, TRUE)
            ELSE IF JsFalsy(fsPath) THEN FirstProject(Tail(selections))
            ELSE IF fsPath.t # "string" THEN Result(NoProject, TRUE)
            ELSE OfProject(ProjectOf(fsPath.s))
    IN  IF selections = <<>> THEN Result(NoProject, FALSE)
        ELSE OfPath(selections[1], OptField(Field(selections[1], "uri"), "fsPath"))

Selections(context, field) ==
    LET sel == OptField(context, field)
    IN  IF ~JsFalsy(sel) /\ sel.t = "array" THEN sel.items ELSE <<>>

extractProjectInfo(composerData) ==
    LET Result(found) ==
            [projectName |-> found.projectName,
             projectPath |-> found.projectPath,
             conversationName |-> IF JsFalsy(Field(composerData, "name")) THEN JsUndefined
                                  ELSE Field(composerData, "name"),
             threw |-> found.threw]
        Kept(byFile, byFolder) ==
            IF byFolder.threw \/ byFolder.projectName # JsUndefined THEN byFolder
            ELSE byFile
        OfFiles(byFile) ==
            IF byFile.threw \/ ~JsFalsy(byFile.projectName) THEN byFile
            ELSE Kept(byFile, FirstProject(Selections(Field(composerData, "context"),
                                                      "folderSelections")))
    IN  Result(OfFiles(FirstProject(Selections(Field(composerData, "context"),
                                               "fileSelections"))))

(***************************************************************************)
(* The composer part of readCursorHistories (cursor-reader.ts).  The global *)
(* state database is [exists, opens, kv, composers, bubbles, item,          *)
(* itemData]: kv and item tell whether the tables cursorDiskKV and          *)
(* ItemTable exist, composers are the rows composerData:<id> ([id, value]), *)
(* bubbles the rows bubbleId:<composerId>:<bubbleId> ([composerId,          *)
(* bubbleId, value]) and itemData the value of the row                      *)
(* composer.composerData of ItemTable, undefined when there is no such row. *)
(***************************************************************************)
\* lines 524-553; a query on a missing table throws
detectStorageFormat(db) ==
    IF ~db.kv THEN "cursorDiskKV"
    ELSE IF Len(db.composers) > 0 THEN "cursorDiskKV"
    ELSE IF ~db.item THEN "cursorDiskKV"
    ELSE IF db.itemData.t # "undefined" THEN "ItemTable"
    ELSE "cursorDiskKV"

\* v with its property f set to x
SetField(v, f, x) == [g \in DOMAIN v \cup {f} |-> IF g = f THEN x ELSE v[g]]

\* Map.set: the entry of key id is replaced in place, or added at the end
MapSet(map, id, value) ==
    IF \E i \in 1..Len(map) : map[i].id = id
    THEN [i \in 1..Len(map) |-> IF map[i].id = id THEN [id |-> id, data |-> value]
                                 ELSE map[i]]
    ELSE Append(map, [id |-> id, data |-> value])

\* lines 580-593; reading a composer that is null throws, which ends the loop
RECURSIVE ItemComposers(_, _)
ItemComposers(all, map) ==
    IF all = <<>> THEN map
    ELSE LET composer == all[1]
         IN  IF composer.t \in {"null", "undefined"} THEN map
             ELSE IF JsFalsy(Field(composer, "composerId"))
             THEN ItemComposers(Tail(all), map)
             ELSE ItemComposers(Tail(all),
                      MapSet(map, Field(composer, "composerId").s,
                             [t |-> "object",
                              name |-> Field(composer, "name"),
                              createdAt |-> Field(composer, "createdAt"),
                              lastUpdatedAt |-> Field(composer, "lastUpdatedAt"),
                              composerId |-> Field(composer, "composerId"),
                              workspace |-> Field(composer, "workspace"),
                              conversation |-> JsArray(<<>>)]))

\* lines 558-601
readComposersFromItemTable(db) ==
    IF ~db.item \/ db.itemData.t = "undefined" THEN <<>>
    ELSE LET composerData == JsonParse(db.itemData)
             all == Field(composerData, "allComposers")
         IN  IF composerData.t \in {"throw", "null"} THEN <<>>
             ELSE IF JsFalsy(all) \/ all.t # "array" THEN <<>>
             ELSE ItemComposers(all.items, <<>>)

\* lines 613-623: a row whose value is not JSON of an object is skipped
RECURSIVE KVComposers(_, _)
KVComposers(rows, map) ==
    IF rows = <<>> THEN map
    ELSE LET composerData == JsonParse(rows[1].value)
         IN  IF composerData.t \notin {"object", "array"}
             THEN KVComposers(Tail(rows), map)
             ELSE KVComposers(Tail(rows),
                      MapSet(map, rows[1].id,
                             SetField(composerData, "composerId", JsString(rows[1].id))))

\* lines 606-627, on a database that has the table
readComposersFromCursorDiskKV(db) == KVComposers(db.composers, <<>>)

\* lines 670-692: the bubbles stored under composerId, in row order
RECURSIVE BubblesOf(_, _)
BubblesOf(rows, composerId) ==
    IF rows = <<>> THEN <<>>
    ELSE LET row == rows[1]
             bubbleData == JsonParse(row.value)
         IN  IF \/ bubbleData.t \notin {"object", "array"}
                \/ row.composerId = <<>> \/ row.bubbleId = <<>>
                \/ row.composerId # composerId
             THEN BubblesOf(Tail(rows), composerId)
             ELSE <<SetField(bubbleData, "bubbleId", JsString(row.bubbleId))>>
                      \o BubblesOf(Tail(rows), composerId)


One == JsNumber(FALSE, <<0, 0, 1>>)

\* lines 734-763: the messages of the bubbles, and whether the loop threw
\* (a bubble that is null, a text that is no string)
RECURSIVE BubbleMessages(_, _, _)
BubbleMessages(bubbles, composerId, timestamp) ==
    LET Stop == [messages |-> <<>>, threw |-> TRUE]
        After(message, rest) ==
            [messages |-> <<message>> \o rest.messages, threw |-> rest.threw]
        Push(bubble, content) ==
            IF JsFalsy(content) THEN BubbleMessages(Tail(bubbles), composerId, timestamp)
            ELSE IF content.t # "string" THEN Stop
            ELSE IF Trim(content.s) = <<>>
            THEN BubbleMessages(Tail(bubbles), composerId, timestamp)
            ELSE After([id |-> Field(bubble, "bubbleId"),
                        role |-> IF Field(bubble, "type") = One THEN "user"
                                 ELSE "assistant",
                        content |-> JsString(content.s),
                        timestamp |-> timestamp,
                        composerId |-> JsString(composerId),
                        bubbleId |-> Field(bubble, "bubbleId"),
                        modelName |-> OptField(Field(bubble, "modelInfo"), "modelName")],
                       BubbleMessages(Tail(bubbles), composerId, timestamp))
        Content(text, richText) ==
            IF JsFalsy(text) /\ ~JsFalsy(richText)
            THEN (IF richText.t = "string" THEN parseRichText(richText) ELSE richText)
            ELSE text
        OfBubble(bubble) ==
            IF bubble.t \in {"null", "undefined"} THEN Stop
            ELSE Push(bubble, Content(JsOr(Field(bubble, "text"), JsString(<<>>)),
                                      Field(bubble, "richText")))
    IN  IF bubbles = <<>> THEN [messages |-> <<>>, threw |-> FALSE]
        ELSE OfBubble(bubbles[1])

\* ComposerBubbles putting the separately stored bubbles after the
\* conversation array
ComposerBubblesMerged(composerId, composerData, format, db) ==
    LET OfInline(inline) ==
            IF format = "cursorDiskKV" THEN inline \o BubblesOf(db.bubbles, composerId)
            ELSE inline
        OfConversation(conversation) ==
            OfInline(IF ~JsFalsy(conversation) /\ conversation.t = "array"
                     THEN conversation.items ELSE <<>>)
    IN  OfConversation(Field(composerData, "conversation"))

\* lines 704-721: the bubbles of a composer, the conversation array first
ComposerBubbles(composerId, composerData, format, db) ==
    LET OfInline(inline) ==
            IF inline # <<>> THEN inline
            ELSE IF format = "cursorDiskKV" THEN BubblesOf(db.bubbles, composerId)
            ELSE <<>>
        OfConversation(conversation) ==
            OfInline(IF ~JsFalsy(conversation) /\ conversation.t = "array"
                     THEN conversation.items ELSE <<>>)
    IN  OfConversation(Field(composerData, "conversation"))

\* lines 703-794: the loop over the composers; empty counts the composers
\* without messages, threw tells that the loop was left by an exception
RECURSIVE BuildConversations(_, _, _)
BuildConversations(composers, format, db) ==
    LET Stop == [out |-> <<>>, empty |-> 0, threw |-> TRUE]
        Counted(rest) == [rest EXCEPT !.empty = @ + 1]
        Pushed(conversation, rest) == [rest EXCEPT !.out = <<conversation>> \o @]
        Emit(composerId, composerData, messages, projectInfo, conversationTimestamp) ==
            IF projectInfo.threw \/ conversationTimestamp.t = "throw" THEN Stop
            ELSE Pushed([src |-> <<"composer", composerId>>,
                         h |-> [t |-> "object",
                                id |-> JsString(composerId),
                                timestamp |-> conversationTimestamp,
                                messages |-> messages,
                                conversationType |-> "composer",
                                metadata |->
                                    [workspace |-> Field(composerData, "workspace"),
                                     projectName |-> projectInfo.projectName,
                                     projectPath |-> projectInfo.projectPath,
                                     conversationName |-> projectInfo.conversationName,
                                     source |-> "cursor-composer"]]],
                        BuildConversations(Tail(composers), format, db))
        OfBuilt(composerId, composerData, built) ==
            IF built.threw THEN Stop
            ELSE IF built.messages = <<>>
            THEN Counted(BuildConversations(Tail(composers), format, db))
            ELSE Emit(composerId, composerData, built.messages,
                      extractProjectInfo(composerData),
                      normalizeTimestamp(JsOr(Field(composerData, "lastUpdatedAt"),
                                              Field(composerData, "createdAt"))))
        OfStart(composerId, composerData, bubbles, conversationStartTime) ==
            IF conversationStartTime.t = "throw" THEN Stop
            ELSE OfBuilt(composerId, composerData,
                         BubbleMessages(bubbles, composerId, conversationStartTime))
        OfBubbles(composerId, composerData, bubbles) ==
            IF bubbles = <<>> THEN Counted(BuildConversations(Tail(composers), format, db))
            ELSE OfStart(composerId, composerData, bubbles,
                         normalizeTimestamp(Field(composerData, "createdAt")))
    IN  IF composers = <<>> THEN [out |-> <<>>, empty |-> 0, threw |-> FALSE]
        ELSE OfBubbles(composers[1].id, composers[1].data,
                       ComposerBubbles(composers[1].id, composers[1].data, format, db))

\* lines 635-816: the conversations of the global state database; nothing
\* when it cannot be opened or a query throws
ReadComposerConversations(db) ==
    LET Stop == [out |-> <<>>, empty |-> 0, threw |-> TRUE]
        OfFormat(format) ==
            IF format = "ItemTable"
            THEN BuildConversations(readComposersFromItemTable(db), format, db)
            ELSE IF ~db.kv THEN Stop
            ELSE BuildConversations(readComposersFromCursorDiskKV(db), format, db)
    IN  IF ~db.opens THEN Stop ELSE OfFormat(detectStorageFormat(db))

(***************************************************************************)
(* generateDeterministicUUID (cursor-reader.ts, lines 90-94).               *)
(***************************************************************************)
\* MD5 digests, in hexadecimal, of the strings the passes below hash
Md5Table ==
    {
      [input |-> <<"w", "1", "-", "s", "e", "s", "s", "i", "o", "n", "-", "0">>,
       hex |-> <<"4", "f", "1", "3", "8", "a", "0", "4", "5", "f", "c", "5", "9", "2", "b", "b", "5", "0", "6", "a", "b", "0", "1", "6", "0", "7", "3", "2", "4", "5", "d", "a">>],
      [input |-> <<"w", "1", "-", "s", "e", "s", "s", "i", "o", "n", "-", "1">>,
       hex |-> <<"e", "1", "c", "b", "b", "b", "3", "7", "e", "8", "7", "0", "c", "a", "c", "9", "8", "3", "6", "e", "7", "f", "d", "1", "c", "b", "1", "4", "a", "8", "1", "e">>],
      [input |-> <<"w", "1", "-", "s", "e", "s", "s", "i", "o", "n", "-", "2">>,
       hex |-> <<"f", "5", "b", "5", "f", "1", "3", "0", "f", "0", "2", "b", "a", "5", "a", "1", "6", "2", "1", "2", "5", "d", "e", "b", "3", "a", "a", "c", "6", "6", "2", "6">>],
      [input |-> <<"w", "1", "-", "s", "e", "s", "s", "i", "o", "n", "-", "3">>,
       hex |-> <<"8", "0", "3", "c", "1", "b", "f", "3", "4", "1", "4", "4", "c", "e", "e", "8", "7", "7", "7", "8", "d", "7", "a", "c", "3", "c", "7", "5", "3", "2", "4", "9">>],
      [input |-> <<"w", "1", "-", "s", "e", "s", "s", "i", "o", "n", "-", "4">>,
       hex |-> <<"8", "e", "5", "6", "4", "2", "a", "b", "b", "d", "d", "3", "7", "2", "3", "7", "f", "0", "6", "1", "f", "c", "7", "1", "7", "3", "f", "d", "2", "b", "4", "3">>],
      [input |-> <<"w", "1", "-", "s", "e", "s", "s", "i", "o", "n", "-", "5">>,
       hex |-> <<"8", "1", "9", "b", "5", "c", "5", "c", "5", "9", "5", "d", "0", "6", "a", "6", "6", "4", "0", "2", "7", "5", "3", "a", "f", "c", "2", "b", "2", "5", "3", "a">>],
      [input |-> <<"w", "2", "-", "s", "e", "s", "s", "i", "o", "n", "-", "0">>,
       hex |-> <<"0", "4", "c", "8", "8", "5", "c", "3", "f", "0", "2", "f", "f", "6", "7", "a", "0", "b", "6", "4", "e", "8", "2", "9", "3", "3", "7", "8", "d", "9", "2", "3">>],
      [input |-> <<"w", "2", "-", "s", "e", "s", "s", "i", "o", "n", "-", "1">>,
       hex |-> <<"0", "4", "b", "0", "a", "a", "b", "f", "8", "2", "a", "e", "c", "1", "4", "9", "d", "8", "a", "e", "2", "1", "2", "6", "4", "c", "6", "9", "9", "d", "a", "e">>],
      [input |-> <<"w", "2", "-", "s", "e", "s", "s", "i", "o", "n", "-", "2">>,
       hex |-> <<"c", "5", "7", "2", "2", "7", "b", "2", "1", "6", "a", "6", "8", "b", "9", "b", "0", "7", "f", "8", "5", "9", "d", "9", "9", "0", "c", "0", "f", "9", "0", "8">>],
      [input |-> <<"w", "2", "-", "s", "e", "s", "s", "i", "o", "n", "-", "3">>,
       hex |-> <<"4", "3", "c", "c", "0", "b", "8", "1", "3", "1", "f", "3", "b", "8", "b", "f", "a", "d", "f", "7", "5", "7", "c", "6", "1", "5", "d", "f", "d", "0", "e", "2">>],
      [input |-> <<"w", "2", "-", "s", "e", "s", "s", "i", "o", "n", "-", "4">>,
       hex |-> <<"c", "0", "9", "8", "f", "3", "c", "f", "7", "0", "7", "b", "3", "3", "c", "d", "d", "c", "7", "4", "4", "a", "2", "6", "c", "0", "1", "e", "0", "9", "f", "b">>],
      [input |-> <<"w", "2", "-", "s", "e", "s", "s", "i", "o", "n", "-", "5">>,
       hex |-> <<"3", "2", "8", "5", "e", "5", "e", "9", "b", "4", "9", "a", "5", "6", "2", "6", "9", "0", "b", "0", "e", "d", "0", "8", "a", "f", "8", "c", "e", "d", "1", "a">>],
      [input |-> <<"w", "3", "-", "s", "e", "s", "s", "i", "o", "n", "-", "0">>,
       hex |-> <<"5", "5", "1", "d", "3", "2", "e", "b", "8", "a", "a", "2", "7", "7", "3", "3", "4", "c", "f", "f", "3", "0", "8", "d", "b", "8", "8", "6", "e", "1", "9", "7">>],
      [input |-> <<"w", "3", "-", "s", "e", "s", "s", "i", "o", "n", "-", "1">>,
       hex |-> <<"1", "8", "1", "f", "7", "f", "8", "c", "7", "2", "1", "4", "8", "f", "6", "1", "e", "b", "a", "9", "d", "8", "3", "e", "b", "3", "7", "2", "e", "7", "a", "0">>],
      [input |-> <<"w", "3", "-", "s", "e", "s", "s", "i", "o", "n", "-", "2">>,
       hex |-> <<"3", "f", "d", "9", "8", "5", "5", "2", "7", "4", "6", "6", "b", "d", "e", "0", "5", "a", "3", "f", "0", "c", "d", "3", "a", "f", "9", "7", "5", "6", "b", "6">>],
      [input |-> <<"w", "3", "-", "s", "e", "s", "s", "i", "o", "n", "-", "3">>,
       hex |-> <<"0", "5", "9", "2", "a", "2", "e", "5", "a", "9", "7", "c", "3", "7", "7", "e", "c", "7", "1", "1", "b", "4", "1", "5", "5", "1", "1", "1", "8", "f", "a", "8">>],
      [input |-> <<"w", "3", "-", "s", "e", "s", "s", "i", "o", "n", "-", "4">>,
       hex |-> <<"2", "f", "3", "0", "3", "f", "4", "8", "5", "c", "e", "3", "4", "e", "6", "6", "a", "7", "2", "0", "f", "6", "5", "5", "9", "f", "f", "a", "2", "4", "f", "d">>],
      [input |-> <<"w", "3", "-", "s", "e", "s", "s", "i", "o", "n", "-", "5">>,
       hex |-> <<"2", "a", "0", "6", "2", "7", "6", "4", "4", "f", "9", "c", "7", "0", "1", "5", "b", "7", "d", "7", "d", "1", "b", "2", "c", "2", "3", "4", "5", "3", "f", "8">>],
      [input |-> <<"w", "4", "-", "s", "e", "s", "s", "i", "o", "n", "-", "0">>,
       hex |-> <<"6", "7", "6", "4", "d", "5", "7", "d", "4", "3", "e", "c", "9", "1", "6", "a", "4", "e", "8", "1", "7", "7", "8", "3", "e", "7", "6", "1", "5", "0", "c", "0">>],
      [input |-> <<"w", "4", "-", "s", "e", "s", "s", "i", "o", "n", "-", "1">>,
       hex |-> <<"5", "9", "2", "8", "7", "6", "a", "f", "9", "1", "c", "6", "3", "a", "1", "c", "f", "9", "b", "d", "b", "e", "5", "0", "9", "2", "1", "b", "4", "d", "e", "d">>],
      [input |-> <<"w", "4", "-", "s", "e", "s", "s", "i", "o", "n", "-", "2">>,
       hex |-> <<"5", "7", "2", "8", "c", "0", "c", "a", "0", "9", "d", "6", "2", "6", "0", "f", "f", "0", "2", "c", "4", "f", "d", "f", "c", "1", "b", "5", "e", "8", "f", "e">>],
      [input |-> <<"w", "4", "-", "s", "e", "s", "s", "i", "o", "n", "-", "3">>,
       hex |-> <<"2", "f", "4", "7", "e", "3", "9", "0", "7", "8", "8", "8", "a", "e", "9", "d", "e", "6", "9", "e", "a", "d", "e", "5", "5", "2", "4", "e", "5", "b", "3", "c">>],
      [input |-> <<"w", "4", "-", "s", "e", "s", "s", "i", "o", "n", "-", "4">>,
       hex |-> <<"a", "1", "4", "3", "f", "6", "e", "d", "b", "6", "3", "7", "5", "e", "0", "9", "3", "a", "a", "9", "2", "d", "3", "7", "7", "a", "3", "e", "9", "3", "f", "9">>],
      [input |-> <<"w", "4", "-", "s", "e", "s", "s", "i", "o", "n", "-", "5">>,
       hex |-> <<"7", "f", "a", "7", "4", "6", "6", "b", "8", "b", "e", "1", "2", "2", "9", "6", "b", "5", "5", "5", "2", "9", "b", "b", "0", "9", "2", "5", "0", "0", "e", "d">>]
    }

\* createHash('md5').update(input).digest('hex')
Md5Hex(input) == (CHOOSE e \in Md5Table : e.input = input).hex

generateDeterministicUUID(input) ==
    LET hash == Md5Hex(input)
    IN  SubSeq(hash, 1, 8) \o <<"-">> \o SubSeq(hash, 9, 12) \o <<"-", "4">>
            \o SubSeq(hash, 14, 16) \o <<"-">> \o SubSeq(hash, 17, 20) \o <<"-">>
            \o SubSeq(hash, 21, 32)

(***************************************************************************)
(* readCopilotSessions (cursor-reader.ts, lines 296-454).  The workspace    *)
(* storage is [exists, dirs], a directory entry being                       *)
(*   [name, stat, hasDb, workspaceJson, opens, item, sessions]              *)
(* stat "dir", "file" or "throws" (statSync), workspaceJson the text of     *)
(* workspace.json (undefined without the file), opens and item whether      *)
(* state.vscdb opens and has the table ItemTable, sessions the value of     *)
(* the row interactive.sessions (undefined without the row).                *)
(***************************************************************************)
FileScheme == <<"f", "i", "l", "e", ":", "/", "/">>

\* uri.replace('file://', ''): the first occurrence is removed
StripFileScheme(s) ==
    LET n == Len(FileScheme)
        at(i) == i + n - 1 <= Len(s) /\ SubSeq(s, i, i + n - 1) = FileScheme
    IN  IF \E i \in 1..Len(s) : at(i)
        THEN LET i == CHOOSE j \in 1..Len(s) : at(j) /\ \A k \in 1..(j - 1) : ~at(k)
             IN  SubSeq(s, 1, i - 1) \o SubSeq(s, i + n, Len(s))
        ELSE s

\* lines 260-291
getWorkspaceInfo(workspaceDir) ==
    LET Folder(uri) ==
            IF JsFalsy(uri) THEN JsUndefined
            ELSE IF uri.t = "string" THEN JsString(StripFileScheme(uri.s))
            ELSE IF ~JsFalsy(Field(uri, "path")) THEN Field(uri, "path")
            ELSE JsUndefined
        OfJson(workspaceJson) ==
            IF workspaceJson.t \in {"throw", "null"} THEN JsNull
            ELSE [t |-> "object",
                  workspaceId |-> workspaceDir.name,
                  folder |-> Folder(Field(workspaceJson, "folder")),
                  workspace |-> workspaceJson]
    IN  IF workspaceDir.workspaceJson.t = "undefined" THEN JsNull
        ELSE OfJson(JsonParse(workspaceDir.workspaceJson))

\* lines 379-382: the text of a response, and whether reading a part threw
RECURSIVE ResponseTexts(_)
ResponseTexts(parts) ==
    LET After(mine, rest) == [texts |-> mine \o rest.texts, threw |-> rest.threw]
        OfText(text) ==
            IF text.t # "string" THEN [texts |-> <<>>, threw |-> TRUE]
            ELSE After(IF Trim(text.s) # <<>> THEN <<text.s>> ELSE <<>>,
                       ResponseTexts(Tail(parts)))
    IN  IF parts = <<>> THEN [texts |-> <<>>, threw |-> FALSE]
        ELSE IF parts[1].t \in {"null", "undefined"} THEN [texts |-> <<>>, threw |-> TRUE]
        ELSE OfText(JsOr(Field(parts[1], "value"), JsString(<<>>)))

\* `${sessionId}-user-${n}` and `${sessionId}-assistant-${n}`
MessageId(sessionId, role, n) ==
    sessionId \o <<"-">> \o role \o <<"-">> \o NumberToString(JsNumber(FALSE, <<0, 0, n>>))

RoleUser == <<"u", "s", "e", "r">>
RoleAssistant == <<"a", "s", "s", "i", "s", "t", "a", "n", "t">>

\* lines 364-394: the messages of the requests, after those of messages
RECURSIVE RequestMessages(_, _, _)
RequestMessages(requests, sessionId, messages) ==
    LET Stop == [messages |-> messages, threw |-> TRUE]
        Entry(role, name, content, timestamp, n) ==
            [id |-> JsString(MessageId(sessionId, name, n)), role |-> role,
             content |-> content, timestamp |-> timestamp,
             sessionId |-> JsString(sessionId)]
        OfResponse(timestamp, withUser, responseText) ==
            IF responseText = <<>> THEN RequestMessages(Tail(requests), sessionId, withUser)
            ELSE IF timestamp.t = "throw" THEN Stop
            ELSE RequestMessages(Tail(requests), sessionId,
                     Append(withUser, Entry("assistant", RoleAssistant,
                                            JsString(responseText), timestamp,
                                            Len(withUser))))
        OfParts(timestamp, text, parts) ==
            IF ~JsFalsy(text) /\ timestamp.t = "throw" THEN Stop
            ELSE IF parts.threw THEN Stop
            ELSE OfResponse(timestamp,
                            IF JsFalsy(text) THEN messages
                            ELSE Append(messages, Entry("user", RoleUser, text, timestamp,
                                                        Len(messages))),
                            Join(parts.texts, <<"\n">>))
        Parts(response) ==
            IF ~JsFalsy(response) /\ response.t = "array" THEN ResponseTexts(response.items)
            ELSE [texts |-> <<>>, threw |-> FALSE]
        OfRequest(request) ==
            IF request.t \in {"null", "undefined"} THEN Stop
            ELSE OfParts(normalizeTimestamp(JsOr(Field(request, "timestamp"),
                                                 JsNumber(FALSE, now))),
                         OptField(Field(request, "message"), "text"),
                         Parts(Field(request, "response")))
    IN  IF requests = <<>> THEN [messages |-> messages, threw |-> FALSE]
        ELSE OfRequest(requests[1])

\* lines 406-414
FolderProject(folder) == IF JsFalsy(folder) THEN NoProject ELSE ProjectOf(folder.s)

\* SessionKey with an index that goes on counting from one pass to the next
SessionKeyCounting(workspaceId, sessionIndex) ==
    workspaceId \o <<"-", "s", "e", "s", "s", "i", "o", "n", "-">>
        \o NumberToString(JsNumber(FALSE, <<0, 0, sessionIndex + passNo - 1>>))

\* `${workspaceInfo.workspaceId}-session-${sessionIndex}`
SessionKey(workspaceId, sessionIndex) ==
    workspaceId \o <<"-", "s", "e", "s", "s", "i", "o", "n", "-">>
        \o NumberToString(JsNumber(FALSE, <<0, 0, sessionIndex>>))

\* lines 353-434: the sessions of one workspace from index sessionIndex on
\* (counted from 0); an exception ends the loop (line 436)
RECURSIVE CopilotSessions(_, _, _, _)
CopilotSessions(sessionsArray, sessionIndex, workspaceInfo, wi) ==
    LET Session(sessionId, messages, project) ==
            [src |-> <<"copilot", wi, sessionIndex>>,
             h |-> [t |-> "object",
                    id |-> JsString(sessionId),
                    timestamp |-> messages[Len(messages)].timestamp,
                    messages |-> messages,
                    conversationType |-> "copilot",
                    metadata |->
                        [workspaceId |-> JsString(workspaceInfo.workspaceId),
                         workspace |-> workspaceInfo.folder,
                         projectName |-> project.projectName,
                         projectPath |-> project.projectPath,
                         source |-> "cursor-copilot"]]]
        OfBuilt(sessionId, built) ==
            IF built.threw THEN <<>>
            ELSE IF built.messages = <<>>
            THEN CopilotSessions(sessionsArray, sessionIndex + 1, workspaceInfo, wi)
            ELSE <<Session(sessionId, built.messages, FolderProject(workspaceInfo.folder))>>
                     \o CopilotSessions(sessionsArray, sessionIndex + 1, workspaceInfo, wi)
        OfRequests(sessionId, requests) ==
            IF JsFalsy(requests) \/ requests.t # "array"
            THEN CopilotSessions(sessionsArray, sessionIndex + 1, workspaceInfo, wi)
            ELSE OfBuilt(sessionId, RequestMessages(requests.items, sessionId, <<>>))
        OfSession(sessionData) ==
            IF sessionData.t \in {"null", "undefined"} THEN <<>>
            ELSE OfRequests(generateDeterministicUUID(
                                SessionKey(workspaceInfo.workspaceId, sessionIndex)),
                            Field(sessionData, "requests"))
    IN  IF sessionIndex >= Len(sessionsArray) THEN <<>>
        ELSE OfSession(sessionsArray[sessionIndex + 1])

\* lines 313-449, for one workspace directory
WorkspaceSessions(workspaceDir, wi) ==
    LET OfSessions(workspaceInfo, sessionsArray) ==
            IF sessionsArray.t # "array" THEN <<>>
            ELSE CopilotSessions(sessionsArray.items, 0, workspaceInfo, wi)
        OfInfo(workspaceInfo) ==
            IF workspaceInfo.t = "null" THEN <<>>
            ELSE IF ~workspaceDir.opens THEN <<>>
            ELSE IF ~workspaceDir.item THEN <<>>
            ELSE IF workspaceDir.sessions.t = "undefined" THEN <<>>
            ELSE OfSessions(workspaceInfo, JsonParse(workspaceDir.sessions))
    IN  IF ~workspaceDir.hasDb THEN <<>> ELSE OfInfo(getWorkspaceInfo(workspaceDir))

RECURSIVE WorkspaceLoop(_, _)
WorkspaceLoop(dirs, wi) ==
    IF wi > Len(dirs) THEN <<>>
    ELSE (IF dirs[wi].stat = "dir" THEN WorkspaceSessions(dirs[wi], wi) ELSE <<>>)
             \o WorkspaceLoop(dirs, wi + 1)

\* lines 296-454; threw tells that statSync threw in the filter of line 307
readCopilotSessions(storage) ==
    IF ~storage.exists THEN [out |-> <<>>, threw |-> FALSE]
    ELSE IF \E i \in 1..Len(storage.dirs) : storage.dirs[i].stat = "throws"
    THEN [out |-> <<>>, threw |-> TRUE]
    ELSE [out |-> WorkspaceLoop(storage.dirs, 1), threw |-> FALSE]

(***************************************************************************)
(* readCursorHistories (cursor-reader.ts, lines 632-831).  The Cursor side  *)
(* of env is [db, storage].                                                 *)
(***************************************************************************)
readCursorHistories(e) ==
    LET Both(composer, copilot) ==
            [out |-> composer.out \o copilot.out, empty |-> composer.empty]
    IN  IF ~e.db.exists THEN [out |-> <<>>, empty |-> 0]
        ELSE Both(ReadComposerConversations(e.db), readCopilotSessions(e.storage))

(***************************************************************************)
(* Project extraction and merge: extractProjectsFromClaudeCodeHistories     *)
(* (claude-code-reader.ts, lines 243-289), extractProjectsFromConversations *)
(* (cursor-reader.ts, lines 459-515) and mergeProjects                      *)
(* (project-aggregator.ts).  A Map is the sequence of its values in         *)
(* insertion order.                                                         *)
(***************************************************************************)
\* new Date(v)
DateOf(v) ==
    IF v.t = "string" THEN DateParse(v.s)
    ELSE IF v.t = "number" THEN DateFromNumber(v)
    ELSE InvalidDate

\* a > b for two Dates: false when either is invalid
DateGreater(a, b) ==
    /\ a.valid /\ b.valid
    /\ (a.day > b.day \/ (a.day = b.day /\ a.ms > b.ms))

\* the place in map of the entry whose key is path, 0 when there is none
PathIndex(map, path) ==
    IF \E i \in 1..Len(map) : map[i].path = path
    THEN CHOOSE i \in 1..Len(map) : map[i].path = path
    ELSE 0

\* claude-code-reader.ts, lines 253-280
RECURSIVE ClaudeProjectsMap(_, _)
ClaudeProjectsMap(histories, map) ==
    LET Updated(at, historyDate) ==
            [i \in 1..Len(map) |->
                IF i = at
                THEN [map[i] EXCEPT
                         !.sessionCount = @ + 1,
                         !.lastActivity = IF DateGreater(historyDate, @)
                                          THEN historyDate ELSE @]
                ELSE map[i]]
        Added(projectPath, historyDate) ==
            Append(map, [name |-> JsString(Basename(projectPath.s)),
                         path |-> projectPath,
                         sessionCount |-> 1,
                         lastActivity |-> historyDate])
        OfHistory(projectPath, at, historyDate) ==
            IF JsFalsy(projectPath) THEN ClaudeProjectsMap(Tail(histories), map)
            ELSE ClaudeProjectsMap(Tail(histories),
                     IF at = 0 THEN Added(projectPath, historyDate)
                     ELSE Updated(at, historyDate))
    IN  IF histories = <<>> THEN map
        ELSE OfHistory(histories[1].metadata.projectPath,
                       PathIndex(map, histories[1].metadata.projectPath),
                       DateOf(histories[1].timestamp))

\* claude-code-reader.ts, lines 243-289; toISOString throws RangeError on a
\* Date that is invalid (line 287)
extractProjectsFromClaudeCodeHistories(histories) ==
    LET Info(project) ==
            [name |-> project.name, path |-> project.path, workspaceIds |-> <<>>,
             claudeCodeSessionCount |-> project.sessionCount,
             lastActivity |-> DateToISOString(project.lastActivity)]
        OfMap(map) ==
            IF \E i \in 1..Len(map) : ~map[i].lastActivity.valid
            THEN JsThrow("RangeError")
            ELSE JsArray([i \in 1..Len(map) |-> Info(map[i])])
    IN  OfMap(ClaudeProjectsMap(histories, <<>>))

\* cursor-reader.ts, lines 472-504
RECURSIVE CursorProjectsMap(_, _)
CursorProjectsMap(conversations, map) ==
    LET WithId(ids, workspaceId) ==
            IF JsFalsy(workspaceId) \/ (\E k \in 1..Len(ids) : ids[k] = workspaceId)
            THEN ids ELSE Append(ids, workspaceId)
        Touched(project, conv, convDate) ==
            [project EXCEPT
                !.workspaceIds =
                    WithId(@, IF "workspaceId" \in DOMAIN conv.metadata
                              THEN conv.metadata.workspaceId ELSE JsUndefined),
                !.composerCount = IF conv.conversationType = "composer" THEN @ + 1 ELSE @,
                !.copilotSessionCount =
                    IF conv.conversationType = "copilot" THEN @ + 1 ELSE @,
                !.lastActivity = IF DateGreater(convDate, @) THEN convDate ELSE @]
        Fresh(conv, convDate) ==
            [name |-> conv.metadata.projectName, path |-> conv.metadata.projectPath,
             workspaceIds |-> <<>>, composerCount |-> 0, copilotSessionCount |-> 0,
             lastActivity |-> convDate]
        OfConv(conv, at, convDate) ==
            IF JsFalsy(conv.metadata.projectPath) \/ JsFalsy(conv.metadata.projectName)
            THEN CursorProjectsMap(Tail(conversations), map)
            ELSE CursorProjectsMap(Tail(conversations),
                     IF at = 0 THEN Append(map, Touched(Fresh(conv, convDate), conv, convDate))
                     ELSE [i \in 1..Len(map) |->
                              IF i = at THEN Touched(map[i], conv, convDate) ELSE map[i]])
    IN  IF conversations = <<>> THEN map
        ELSE OfConv(conversations[1],
                    PathIndex(map, conversations[1].metadata.projectPath),
                    DateOf(conversations[1].timestamp))

\* cursor-reader.ts, lines 459-515
extractProjectsFromConversations(conversations) ==
    LET Info(project) ==
            [name |-> project.name, path |-> project.path,
             workspaceIds |-> project.workspaceIds,
             composerCount |-> project.composerCount,
             copilotSessionCount |-> project.copilotSessionCount,
             lastActivity |-> DateToISOString(project.lastActivity)]
        OfMap(map) ==
            IF \E i \in 1..Len(map) : ~map[i].lastActivity.valid
            THEN JsThrow("RangeError")
            ELSE JsArray([i \in 1..Len(map) |-> Info(map[i])])
    IN  OfMap(CursorProjectsMap(conversations, <<>>))

\* the characters of the strings compared, by increasing UTF-16 code unit
CharOrder ==
    <<" ", "+", "-", ".", "/", "0", "1", "2", "3", "4", "5", "6", "7", "8", "9", ":",
      "T", "Z">>

CharCode(c) == CHOOSE i \in 1..Len(CharOrder) : CharOrder[i] = c

\* a > b for two strings
RECURSIVE StringGreater(_, _)
StringGreater(a, b) ==
    IF a = <<>> THEN FALSE
    ELSE IF b = <<>> THEN TRUE
    ELSE IF a[1] = b[1] THEN StringGreater(Tail(a), Tail(b))
    ELSE CharCode(a[1]) > CharCode(b[1])

\* projectsMap.set(project.path, value)
SetProject(map, value) ==
    IF PathIndex(map, value.path) = 0 THEN Append(map, value)
    ELSE [i \in 1..Len(map) |-> IF i = PathIndex(map, value.path) THEN value ELSE map[i]]

\* project-aggregator.ts, lines 29-39
RECURSIVE AddCursorProjects(_, _)
AddCursorProjects(cursorProjects, map) ==
    IF cursorProjects = <<>> THEN map
    ELSE AddCursorProjects(Tail(cursorProjects),
             SetProject(map, [name |-> cursorProjects[1].name,
                              path |-> cursorProjects[1].path,
                              workspaceIds |-> cursorProjects[1].workspaceIds,
                              composerCount |-> cursorProjects[1].composerCount,
                              copilotSessionCount |-> cursorProjects[1].copilotSessionCount,
                              claudeCodeSessionCount |-> 0,
                              lastActivity |-> cursorProjects[1].lastActivity]))

\* project-aggregator.ts, lines 42-64
RECURSIVE MergeClaudeProjects(_, _)
MergeClaudeProjects(claudeCodeProjects, map) ==
    LET Merged(existing, project) ==
            [existing EXCEPT
                !.claudeCodeSessionCount = project.claudeCodeSessionCount,
                !.lastActivity = IF StringGreater(project.lastActivity.s, @.s)
                                 THEN project.lastActivity ELSE @]
        OfProject(project, at) ==
            MergeClaudeProjects(Tail(claudeCodeProjects),
                IF at # 0
                THEN [i \in 1..Len(map) |-> IF i = at THEN Merged(map[i], project)
                                             ELSE map[i]]
                ELSE Append(map, [name |-> project.name, path |-> project.path,
                                  workspaceIds |-> <<>>, composerCount |-> 0,
                                  copilotSessionCount |-> 0,
                                  claudeCodeSessionCount |-> project.claudeCodeSessionCount,
                                  lastActivity |-> project.lastActivity]))
    IN  IF claudeCodeProjects = <<>> THEN map
        ELSE OfProject(claudeCodeProjects[1], PathIndex(map, claudeCodeProjects[1].path))

\* project-aggregator.ts, lines 21-67
mergeProjects(cursorProjects, claudeCodeProjects) ==
    MergeClaudeProjects(claudeCodeProjects, AddCursorProjects(cursorProjects, <<>>))

(***************************************************************************)
(* Inputs of normalizeTimestamp.                                            *)
(***************************************************************************)
\* 2026-10-31T00:00:00Z in epoch milliseconds
Now0 == <<1, 793404, 800000>>

\* "2024-01-15T10:30:00.000Z", "2024-01-15", "0000-01-01T00:00:00.000Z"
IsoFull ==
    <<"2", "0", "2", "4", "-", "0", "1", "-", "1", "5", "T", "1", "0", ":",
      "3", "0", ":", "0", "0", ".", "0", "0", "0", "Z">>
IsoDateOnly == <<"2", "0", "2", "4", "-", "0", "1", "-", "1", "5">>
IsoYearZero ==
    <<"0", "0", "0", "0", "-", "0", "1", "-", "0", "1", "T", "0", "0", ":",
      "0", "0", ":", "0", "0", ".", "0", "0", "0", "Z">>
\* "abc", "12abc"
NotADate == <<"a", "b", "c">>
DigitsThenText == <<"1", "2", "a", "b", "c">>

\* whole numbers of seconds around the two thresholds and in 2023
SecondSamples ==
    UNION {{ <<0, 946, 684800 - k>>, <<0, 946, 684800 + k>>,
             <<0, 1700, k>>,
             <<0, 946684, 800000 - k>>, <<0, 946684, 800000 + k>> }
           : k \in 0..MaxDelta}

\* numbers beyond the largest time value of a Date, and small ones
OtherSamples ==
    UNION {{ <<0, 0, k>>, <<8640, 0, 0 + k>>, <<10000, 0, k>> } : k \in 0..MaxDelta}

NonNegSamples ==
    SecondSamples \cup {BMulSmall(m, 1000) : m \in SecondSamples} \cup OtherSamples

TsNumbers ==
    {JsNumber(FALSE, m) : m \in NonNegSamples}
        \cup {JsNumber(TRUE, <<0, 0, 5>>), JsNumber(TRUE, <<0, 1700, 0>>)}

\* the same numbers written as decimal strings ("0" apart: it is no
\* numeric string for the code, and no string of the date-time format)
TsNumericStrings ==
    {JsString(NumberToString(JsNumber(FALSE, m))) : m \in NonNegSamples \ {BZero}}

TsInputs ==
    {JsUndefined, JsNaN} \cup TsNumbers \cup TsNumericStrings
        \cup {JsString(x) : x \in {<<>>, IsoFull, IsoDateOnly, IsoYearZero,
                                   NotADate, DigitsThenText}}

(***************************************************************************)
(* SpecTs: calls of normalizeTimestamp, one after the other, on inputs of   *)
(* TsInputs, the wall clock advancing between the calls.                    *)
(***************************************************************************)
PfIdle ==
    /\ pfFile = JsNull /\ pfPath = <<>> /\ pfResult = JsNull /\ pfPc = "idle"

PassIdle ==
    /\ reader = "none" /\ env = JsNull /\ passNo = 0 /\ pc = "idle"
    /\ out = <<>> /\ emptyCount = 0 /\ prevOut = <<>> /\ projects = JsUndefined

MpIdle ==
    /\ mpCursor = <<>> /\ mpClaude = <<>> /\ mpResult = <<>> /\ mpPc = "idle"

SyncIdle ==
    /\ store = {} /\ synced = {}

PiIdle ==
    /\ piComposer = JsNull /\ piFolder = JsUndefined /\ piResult = JsUndefined
    /\ piFolderResult = JsUndefined /\ piPc = "idle"

AiIdle ==
    /\ aiEnv = JsNull /\ aiKind = "none" /\ aiMessages = 0 /\ aiRetries = 0
    /\ aiAttempt = 0 /\ aiRequests = 0 /\ aiError = "none" /\ aiResult = "none"
    /\ aiPc = "idle"

DcIdle ==
    /\ dcPath = <<>> /\ dcDir = <<>> /\ dcResult = <<>> /\ dcPc = "idle"

SmIdle ==
    /\ chRow = JsNull /\ smPc = "off" /\ smCount = 0 /\ smSelected = FALSE
    /\ smRuns = 0 /\ smSucceeded = FALSE

DmIdle ==
    /\ dmRuns = <<>> /\ dmMain = "off" /\ dmAuth = FALSE

AsIdle ==
    /\ active_sessions = <<>> /\ asUserId = JsNull /\ asActivities = <<>> /\ asRuns = 0

RestIdle ==
    /\ SyncIdle
    /\ PiIdle
    /\ AiIdle
    /\ DcIdle
    /\ SmIdle
    /\ DmIdle
    /\ AsIdle

TsInit ==
    /\ now = Now0
    /\ RestIdle
    /\ PfIdle
    /\ PassIdle
    /\ MpIdle
    /\ tsInput \in TsInputs
    /\ tsResult = JsUndefined
    /\ tsPrevInput = JsUndefined
    /\ tsPrevResult = JsUndefined
    /\ tsPc = "call"

\* the call runs
TsCall ==
    /\ tsPc = "call"
    /\ tsResult' = normalizeTimestamp(tsInput)
    /\ tsPc' = "done"
    /\ UNCHANGED <<now, tsInput, tsPrevInput, tsPrevResult, pfVars, passVars, mpVars, restVars>>

\* the caller goes on to its next timestamp
TsNextInput ==
    /\ tsPc = "done"
    /\ \E v \in TsInputs :
        /\ tsInput' = v
        /\ tsPrevInput' = tsInput
        /\ tsPrevResult' = tsResult
        /\ tsResult' = JsUndefined
        /\ tsPc' = "call"
    /\ UNCHANGED <<now, pfVars, passVars, mpVars, restVars>>

\* a millisecond passes before the call runs
TsTick ==
    /\ tsPc = "call"
    /\ now[3] < Now0[3] + MaxTicks
    /\ now' = BAddSmall(now, 1)
    /\ UNCHANGED <<tsVars, pfVars, passVars, mpVars, restVars>>

TsNext == TsCall \/ TsNextInput \/ TsTick

SpecTs == TsInit /\ [][TsNext]_vars

\* a number, or a string that is a plain integer
IsNumericInput(v) ==
    \/ v.t = "number"
    \/ v.t = "string" /\ v.s # <<>> /\ AllDigits(v.s)

\* the number such an input stands for
NumericValue(v) == IF v.t = "number" THEN v ELSE parseInt(v.s)

IsoOfMs(mag) == DateToISOString(DateFromNumber(JsNumber(FALSE, mag)))

(***************************************************************************)
(* Claims about normalizeTimestamp, under SpecTs.                           *)
(***************************************************************************)
\* C6: for every input (absent, any string, any number, zero, negative or
\* far larger than the current epoch milliseconds) normalizeTimestamp
\* returns, without throwing, a string that parses as a valid ISO-8601 date.
C6_AlwaysValidIso == tsPc = "done" => IsIsoDateString(tsResult)

\* C7: for a string input that is a valid ISO-8601 date, normalizeTimestamp
\* returns the ISO-8601 form of that same instant, not the wall-clock time.
C7_IsoStringPassThrough ==
    (tsPc = "done" /\ IsIsoDateString(tsInput))
        => /\ tsResult.t = "string"
           /\ DateParse(tsResult.s) = DateParse(tsInput.s)

\* C8: a numeric input n is read as milliseconds when n > 946684800000, as
\* seconds (scaled by 1000) when 946684800 < n < 946684800000, and in every
\* other case the current wall-clock time is returned.
C8_NumericTiers ==
    (tsPc = "done" /\ IsNumericInput(tsInput))
        => LET n == NumericValue(tsInput)
           IN  /\ tsResult.t = "string"
               /\ tsResult =
                    IF JsGreater(n, MsThreshold) THEN IsoOfMs(n.mag)
                    ELSE IF JsGreater(n, SecThreshold) /\ BLess(n.mag, MsThreshold)
                    THEN IsoOfMs(BMulSmall(n.mag, 1000))
                    ELSE DateToISOString(NewDate)

\* a whole number of seconds s with 946684800 < s < 946684800000
InSecondsRange(n) ==
    n.t = "number" /\ ~n.neg /\ BLess(SecThreshold, n.mag) /\ BLess(n.mag, MsThreshold)

\* the previous call was given s and the current one 1000 * s, each as a
\* number or as a numeric string
SecondsThenMillis ==
    /\ tsPc = "done"
    /\ IsNumericInput(tsPrevInput) /\ IsNumericInput(tsInput)
    /\ InSecondsRange(NumericValue(tsPrevInput))
    /\ NumericValue(tsInput) =
           JsNumber(FALSE, BMulSmall(NumericValue(tsPrevInput).mag, 1000))

\* C9: for every whole number of seconds s with 946684800 < s < 946684800000,
\* normalizeTimestamp(s) and normalizeTimestamp(1000 * s) return the same
\* instant, s seconds after the epoch, for numbers and numeric strings alike.
C9_UnitDisambiguation ==
    SecondsThenMillis
        => /\ tsResult.t = "string"
           /\ tsResult = tsPrevResult
           /\ DateParse(tsResult.s) = DateFromNumber(NumericValue(tsInput))

\* 1700000000 as a number, then 1700000000000 as a string: both calls gave
\* 2023-11-14T22:13:20.000Z
C9_Witness ==
    /\ SecondsThenMillis
    /\ tsPrevInput = JsNumber(FALSE, <<0, 1700, 0>>)
    /\ tsInput.t = "string"
    /\ tsPrevResult = JsString(
         <<"2", "0", "2", "3", "-", "1", "1", "-", "1", "4", "T", "2", "2", ":",
           "1", "3", ":", "2", "0", ".", "0", "0", "0", "Z">>)

(***************************************************************************)
(* Lines of Claude Code log files.                                          *)
(***************************************************************************)
JsonLine(v) == [k |-> "json", data |-> v]
TextPart(text) == [t |-> "object", type |-> JsString(<<"t", "e", "x", "t">>), text |-> text]
ToolUsePart == [t |-> "object", type |-> JsString(<<"t", "o", "o", "l">>)]
Message(content) == [t |-> "object", content |-> content]

\* not JSON; the JSON values null and 7; a line of white space
Garbage == [k |-> "garbage"]
NullLine == JsonLine(JsNull)
ScalarLine == JsonLine(JsNumber(FALSE, <<0, 0, 7>>))
BlankLine == [k |-> "blank"]
\* {"type":"summary","summary":"S1"}
Summary1 ==
    JsonLine([t |-> "object", type |-> TypeSummary, summary |-> JsString(<<"S", "1">>)])
\* {"type":"summary","summary":"S2","sessionId":"u2"}
Summary2 ==
    JsonLine([t |-> "object", type |-> TypeSummary, summary |-> JsString(<<"S", "2">>),
              sessionId |-> JsString(<<"u", "2">>)])
\* {"type":"user","sessionId":"u1","message":{"content":"hi"},
\*  "timestamp":"2024-01-15T10:30:00.000Z"}
UserHi ==
    JsonLine([t |-> "object", type |-> TypeUser, sessionId |-> JsString(<<"u", "1">>),
              message |-> Message(JsString(<<"h", "i">>)),
              timestamp |-> JsString(IsoFull)])
\* {"type":"user","message":{"content":[{"type":"text","text":"he"},
\*  {"type":"tool"},"raw",{"type":"text","text":"y"}]},"timestamp":1700000000}
UserParts ==
    JsonLine([t |-> "object", type |-> TypeUser,
              message |-> Message(JsArray(<<TextPart(JsString(<<"h", "e">>)), ToolUsePart,
                                            JsString(<<"r", "a", "w">>),
                                            TextPart(JsString(<<"y">>))>>)),
              timestamp |-> JsNumber(FALSE, <<0, 1700, 0>>)])
\* {"type":"assistant","message":{"content":"done"}}
AssistantDone ==
    JsonLine([t |-> "object", type |-> TypeAssistant,
              message |-> Message(JsString(<<"d", "o", "n", "e">>))])
\* {"type":"assistant","message":{"content":[{"type":"text","text":""}," "]},
\*  "timestamp":"abc"}
AssistantBlank ==
    JsonLine([t |-> "object", type |-> TypeAssistant,
              message |-> Message(JsArray(<<TextPart(JsString(<<>>)), JsString(<<" ">>)>>)),
              timestamp |-> JsString(NotADate)])
\* {"type":"user","sessionId":"u1"}
UserNoMessage ==
    JsonLine([t |-> "object", type |-> TypeUser, sessionId |-> JsString(<<"u", "1">>)])
\* {"type":"assistant","message":{"content":{"type":"text","text":"ok"}},
\*  "timestamp":"2024-01-15"}
AssistantEarlier ==
    JsonLine([t |-> "object", type |-> TypeAssistant,
              message |-> Message(TextPart(JsString(<<"o", "k">>))),
              timestamp |-> JsString(IsoDateOnly)])

LineSamples ==
    {Garbage, NullLine, ScalarLine, BlankLine, Summary1, Summary2, UserHi, UserParts,
     AssistantDone, AssistantBlank, UserNoMessage, AssistantEarlier}

SeqsUpTo(S, n) == UNION {[1..k -> S] : k \in 0..n}

\* "s1.jsonl", "s2.jsonl"
FileS1 == <<"s", "1">> \o JsonlExt
FileS2 == <<"s", "2">> \o JsonlExt

\* "/p/a", "/p/b"
PathA == <<"/", "p", "/", "a">>
PathB == <<"/", "p", "/", "b">>

(***************************************************************************)
(* SpecParse: one call of parseSessionFile on a log file of at most         *)
(* MaxLines lines of LineSamples, or on a file that cannot be read.         *)
(***************************************************************************)
TsIdle ==
    /\ tsInput = JsUndefined /\ tsResult = JsUndefined /\ tsPrevInput = JsUndefined
    /\ tsPrevResult = JsUndefined /\ tsPc = "idle"

PfInit ==
    /\ now = Now0
    /\ RestIdle
    /\ TsIdle
    /\ PassIdle
    /\ MpIdle
    /\ \/ \E ls \in SeqsUpTo(LineSamples, MaxLines) :
             pfFile = [name |-> FileS1, readable |-> TRUE, lines |-> ls]
       \/ pfFile = [name |-> FileS1, readable |-> FALSE, lines |-> <<>>]
    /\ pfPath \in {PathA, PathB}
    /\ pfResult = JsNull
    /\ pfPc = "call"

PfCall ==
    /\ pfPc = "call"
    /\ pfResult' = parseSessionFile(pfFile, pfPath)
    /\ pfPc' = "done"
    /\ UNCHANGED <<now, tsVars, pfFile, pfPath, passVars, mpVars, restVars>>

PfNext == PfCall

SpecParse == PfInit /\ [][PfNext]_vars

\* the line is JSON of an object
IsObjectLine(line) == line.k = "json" /\ line.data.t = "object"

\* the messages, session id and summary parseSessionFile gave for the file
\* called name; no session stands for no message, the id of the file name
\* and no summary
ParseFields(h, name) ==
    IF h.t = "null"
    THEN [id |-> JsString(BasenameExt(name, JsonlExt)), messages |-> <<>>,
          summary |-> JsUndefined]
    ELSE [id |-> h.id, messages |-> h.messages, summary |-> h.metadata.summary]

\* C4: parseSessionFile on a log file in which some lines are not valid JSON,
\* or not JSON of an object, yields the messages, session id and summary of
\* the other lines, in file order, as if those lines were absent.
C4_SkipPoisonRecord ==
    pfPc = "done"
        => ParseFields(pfResult, pfFile.name) =
           ParseFields(parseSessionFile(
               [pfFile EXCEPT !.lines = SelectSeq(@, IsObjectLine)], pfPath), pfFile.name)

\* a file whose first line is not JSON and whose second line is null gave a
\* session with the two messages of its third line and that line's id
C4_Witness ==
    /\ pfPc = "done"
    /\ Len(pfFile.lines) = 3
    /\ pfFile.lines[1] = Garbage /\ pfFile.lines[2] = NullLine
    /\ pfFile.lines[3] = UserHi
    /\ pfResult.t = "object"
    /\ Len(pfResult.messages) = 1
    /\ pfResult.messages[1].display = JsString(<<"h", "i">>)
    /\ pfResult.id = JsString(<<"u", "1">>)

(***************************************************************************)
(* The files on disk for the Claude Code reader.                            *)
(***************************************************************************)
Letters == <<"a", "b", "c", "d", "e", "f">>

\* "-p-a", "-p-b", ...: the directory of the project /p/a, /p/b, ...
DirName(i) == <<"-", "p", "-", Letters[i]>>

\* "s1.jsonl", "s2.jsonl", ...
SessionFileName(j) == <<"s", Digits[j + 1]>> \o JsonlExt

LogFile(j, lines) ==
    [name |-> SessionFileName(j), stat |-> "fresh", readable |-> TRUE, lines |-> lines]

\* the file that comes j-th in its directory
FileKinds(j) ==
    { LogFile(j, <<UserHi>>),
      LogFile(j, <<Summary1, AssistantDone>>),
      LogFile(j, <<Garbage, UserNoMessage>>),
      LogFile(j, <<UserParts, AssistantBlank>>),
      LogFile(j, <<UserHi, AssistantEarlier>>),
      [LogFile(j, <<>>) EXCEPT !.readable = FALSE],
      [LogFile(j, <<UserHi>>) EXCEPT !.stat = "old"],
      [LogFile(j, <<UserHi>>) EXCEPT !.stat = "throws"],
      [LogFile(j, <<UserHi>>) EXCEPT !.name = <<"n", ".", "t", "x", "t">>] }

\* the lists of at most n files a directory can hold
RECURSIVE FileLists(_, _)
FileLists(j, n) ==
    {<<>>} \cup
    (IF n = 0 THEN {}
     ELSE UNION {{<<f>> \o rest : rest \in FileLists(j + 1, n - 1)} : f \in FileKinds(j)})

\* the directory that comes i-th, holding at most n files
DirKinds(i, n) ==
    {[name |-> DirName(i), stat |-> "throws", list |-> TRUE, files |-> <<>>],
     [name |-> DirName(i), stat |-> "file", list |-> TRUE, files |-> <<>>],
     [name |-> DirName(i), stat |-> "dir", list |-> FALSE, files |-> <<>>]}
    \cup {[name |-> DirName(i), stat |-> "dir", list |-> TRUE, files |-> fs]
          : fs \in FileLists(1, n)}

\* the lists of at most d directories holding at most n files all together
RECURSIVE DirLists(_, _, _)
DirLists(i, d, n) ==
    {<<>>} \cup
    (IF d = 0 THEN {}
     ELSE UNION {{<<dir>> \o rest : rest \in DirLists(i + 1, d - 1, n - Len(dir.files))}
                 : dir \in DirKinds(i, n)})

ClaudeEnvs ==
    {[exists |-> FALSE, lookback |-> FALSE, dirs |-> <<>>]}
    \cup {[exists |-> TRUE, lookback |-> lb, dirs |-> ds]
          : lb \in BOOLEAN, ds \in DirLists(1, MaxDirs, MaxFiles)}

(***************************************************************************)
(* What Cursor has on disk.  The text of a database row is kept as what     *)
(* JSON.parse gives for it.                                                 *)
(***************************************************************************)
JsonOf(v) == JsonText(<<"{", "}">>, v)

Two == JsNumber(FALSE, <<0, 0, 2>>)

\* 2023-11-14T22:13:20Z in ms, a minute later, the same in s, and 10^16
CreatedMs == JsNumber(FALSE, <<0, 1700000, 0>>)
UpdatedMs == JsNumber(FALSE, <<0, 1700000, 60000>>)
CreatedSeconds == JsNumber(FALSE, <<0, 1700, 0>>)
HugeMs == JsNumber(FALSE, <<10000, 0, 0>>)

TextNode(s) == [t |-> "object", text |-> JsString(s)]
Paragraph(nodes) == [t |-> "object", children |-> JsArray(nodes)]

RichOk ==
    JsonText(<<"{", "r", "i", "c", "h", "}">>,
             [t |-> "object",
              root |-> Paragraph(<<Paragraph(<<TextNode(<<"o", "k">>), TextNode(<<"t", "h", "e", "n">>)>>)>>)])

BubbleUser == [t |-> "object", type |-> One, text |-> JsString(<<"h", "i">>)]
BubbleRich == [t |-> "object", type |-> Two, richText |-> RichOk]
BubbleBlank == [t |-> "object", type |-> Two, text |-> JsString(<<" ", " ">>)]
BubbleBadRich == [t |-> "object", type |-> Two, richText |-> NotJson(<<"o", "o", "p", "s">>)]

FileSelection ==
    [t |-> "object",
     uri |-> [t |-> "object", fsPath |-> JsString(<<"/", "U", "/", "a", "/", "D", "e", "v", "e", "l", "o", "p", "e", "r", "/", "p", "r", "o", "j", "/", "x", ".", "t", "s">>)]]

ComposerId(i) == <<"c", Digits[i + 1]>>

\* the values a row composerData:<id> can hold
ComposerValues ==
    { JsonOf([t |-> "object", name |-> JsString(<<"f", "i", "x">>),
              conversation |-> JsArray(<<BubbleUser, BubbleRich>>),
              createdAt |-> CreatedMs, lastUpdatedAt |-> UpdatedMs,
              context |-> [t |-> "object",
                           fileSelections |-> JsArray(<<FileSelection>>)]]),
      JsonOf([t |-> "object", createdAt |-> CreatedMs]),
      JsonOf([t |-> "object", conversation |-> JsArray(<<BubbleBlank>>),
              createdAt |-> CreatedMs]),
      JsonOf([t |-> "object", conversation |-> JsArray(<<BubbleUser>>),
              createdAt |-> HugeMs]),
      JsonOf([t |-> "object", conversation |-> JsArray(<<JsNull>>),
              createdAt |-> CreatedMs]),
      JsonOf([t |-> "object", conversation |-> JsArray(<<BubbleBadRich>>),
              lastUpdatedAt |-> CreatedSeconds]),
      JsonOf([t |-> "object", conversation |-> JsArray(<<BubbleUser>>),
              createdAt |-> JsString(IsoFull)]),
      JsonOf(JsNull),
      NotJson(<<"{">>) }

\* the lists of at most n rows, the i-th row first
RECURSIVE ComposerRows(_, _)
ComposerRows(i, n) ==
    {<<>>} \cup
    (IF n = 0 THEN {}
     ELSE UNION {{<<[id |-> ComposerId(i), value |-> v]>> \o rest
                  : rest \in ComposerRows(i + 1, n - 1)} : v \in ComposerValues})

BubbleRows ==
    <<[composerId |-> ComposerId(1), bubbleId |-> <<"b", "1">>, value |-> JsonOf(BubbleUser)],
      [composerId |-> ComposerId(1), bubbleId |-> <<"b", "2">>, value |-> NotJson(<<"{">>)],
      [composerId |-> ComposerId(1), bubbleId |-> <<>>, value |-> JsonOf(BubbleUser)],
      [composerId |-> ComposerId(2), bubbleId |-> <<"b", "3">>, value |-> JsonOf(BubbleRich)]>>

\* the values the row composer.composerData of ItemTable can hold
ItemValues ==
    { JsUndefined,
      NotJson(<<"{">>),
      JsonOf([t |-> "object"]),
      JsonOf([t |-> "object",
              allComposers |->
                  JsArray(<<[t |-> "object", composerId |-> JsString(ComposerId(1)),
                             createdAt |-> CreatedMs],
                            [t |-> "object", name |-> JsString(<<"f", "i", "x">>)],
                            [t |-> "object", composerId |-> JsString(ComposerId(1)),
                             name |-> JsString(<<"f", "i", "x">>)],
                            [t |-> "object", composerId |-> JsString(ComposerId(2))],
                            JsNull,
                            [t |-> "object", composerId |-> JsString(ComposerId(3))]>>)]) }

NoDb ==
    [exists |-> FALSE, opens |-> FALSE, kv |-> FALSE, composers |-> <<>>,
     bubbles |-> <<>>, item |-> FALSE, itemData |-> JsUndefined]

\* the global state databases with at most n composer rows
GlobalDbs(n) ==
    {NoDb, [NoDb EXCEPT !.exists = TRUE]}
    \cup {[NoDb EXCEPT !.exists = TRUE, !.opens = TRUE, !.item = i] : i \in BOOLEAN}
    \cup {[NoDb EXCEPT !.exists = TRUE, !.opens = TRUE, !.kv = k, !.item = TRUE,
                       !.itemData = v] : k \in BOOLEAN, v \in ItemValues}
    \cup {[NoDb EXCEPT !.exists = TRUE, !.opens = TRUE, !.kv = TRUE,
                       !.composers = rows, !.bubbles = bs]
          : rows \in ComposerRows(1, n) \ {<<>>}, bs \in {<<>>, BubbleRows}}

\* a database with one conversation
OneComposerDb ==
    [NoDb EXCEPT !.exists = TRUE, !.opens = TRUE, !.kv = TRUE,
                 !.composers = <<[id |-> ComposerId(1),
                                  value |-> JsonOf([t |-> "object",
                                                    conversation |-> JsArray(<<BubbleUser>>),
                                                    createdAt |-> CreatedMs])]>>]

Ask == [t |-> "object", text |-> JsString(<<"q">>)]
Answer(s) == [t |-> "object", value |-> JsString(s)]

\* the values an element of interactive.sessions can hold
SessionValues ==
    { [t |-> "object",
       requests |-> JsArray(<<[t |-> "object", message |-> Ask,
                               response |-> JsArray(<<Answer(<<"a", "1">>), Answer(<<" ">>),
                                                      Answer(<<"a", "2">>)>>),
                               timestamp |-> CreatedMs]>>)],
      [t |-> "object",
       requests |-> JsArray(<<[t |-> "object", message |-> Ask]>>)],
      [t |-> "object", requests |-> JsArray(<<>>)],
      [t |-> "object"],
      JsNull,
      [t |-> "object",
       requests |-> JsArray(<<[t |-> "object", message |-> Ask, timestamp |-> HugeMs]>>)],
      [t |-> "object",
       requests |-> JsArray(<<[t |-> "object",
                               response |-> JsArray(<<Answer(<<" ">>)>>)]>>)],
      [t |-> "object",
       requests |-> JsArray(<<[t |-> "object", message |-> Ask,
                               timestamp |-> JsString(NumberToString(CreatedSeconds))]>>)] }

\* the arrays of at most n sessions
RECURSIVE SessionArrays(_)
SessionArrays(n) ==
    {<<>>} \cup
    (IF n = 0 THEN {}
     ELSE UNION {{<<v>> \o rest : rest \in SessionArrays(n - 1)} : v \in SessionValues})

WorkspaceId(i) == <<"w", Digits[i + 1]>>

FolderUri == JsString(<<"f", "i", "l", "e", ":", "/", "/", "/", "U", "/", "a", "/", "D", "e", "v", "e", "l", "o", "p", "e", "r", "/", "p", "r", "o", "j">>)

\* the workspace directory that comes i-th, no session in it
Workspace(i) ==
    [name |-> WorkspaceId(i), stat |-> "dir", hasDb |-> TRUE,
     workspaceJson |-> JsonOf([t |-> "object", folder |-> FolderUri]),
     opens |-> TRUE, item |-> TRUE, sessions |-> JsonOf(JsArray(<<>>)), count |-> 0]

\* the i-th directory entry, holding at most n sessions; count is the number
\* of sessions it holds
WorkspaceKinds(i, n) ==
    { [Workspace(i) EXCEPT !.stat = "throws"],
      [Workspace(i) EXCEPT !.stat = "file"],
      [Workspace(i) EXCEPT !.hasDb = FALSE],
      [Workspace(i) EXCEPT !.workspaceJson = JsUndefined],
      [Workspace(i) EXCEPT !.workspaceJson = NotJson(<<"{">>)],
      [Workspace(i) EXCEPT !.workspaceJson = JsonOf(JsNull)],
      [Workspace(i) EXCEPT !.opens = FALSE],
      [Workspace(i) EXCEPT !.item = FALSE],
      [Workspace(i) EXCEPT !.sessions = JsUndefined],
      [Workspace(i) EXCEPT !.sessions = NotJson(<<"[">>)],
      [Workspace(i) EXCEPT !.sessions = JsonOf([t |-> "object"])] }
    \cup {[Workspace(i) EXCEPT !.sessions = JsonOf(JsArray(ss)), !.count = Len(ss)]
          : ss \in SessionArrays(n)}
    \cup {[Workspace(i) EXCEPT
              !.workspaceJson =
                  JsonOf([t |-> "object",
                          folder |-> [t |-> "object", path |-> JsString(<<"/", "U", "/", "a", "/", "p", "r", "o", "j">>)]]),
              !.sessions = JsonOf(JsArray(ss)), !.count = Len(ss)]
          : ss \in SessionArrays(IF n > 0 THEN 1 ELSE 0) \ {<<>>}}

\* the lists of at most w directory entries holding at most n sessions
RECURSIVE WorkspaceLists(_, _, _)
WorkspaceLists(i, w, n) ==
    {<<>>} \cup
    (IF w = 0 THEN {}
     ELSE UNION {{<<ws>> \o rest : rest \in WorkspaceLists(i + 1, w - 1, n - ws.count)}
                 : ws \in WorkspaceKinds(i, n)})

NoStorage == [exists |-> FALSE, dirs |-> <<>>]

Storages == {NoStorage} \cup {[exists |-> TRUE, dirs |-> ds]
                              : ds \in WorkspaceLists(1, MaxWorkspaces, MaxSessions)}

\* a workspace storage with one session
OneSessionStorage ==
    [exists |-> TRUE,
     dirs |-> <<[Workspace(1) EXCEPT
                    !.sessions = JsonOf(JsArray(<<[t |-> "object",
                        requests |-> JsArray(<<[t |-> "object", message |-> Ask,
                                                timestamp |-> CreatedMs]>>)]>>)),
                    !.count = 1]>>]

CursorEnvs ==
    {[db |-> d, storage |-> s] : d \in GlobalDbs(MaxComposers),
                                 s \in {NoStorage, OneSessionStorage}}
    \cup {[db |-> d, storage |-> s]
          : d \in {NoDb, [NoDb EXCEPT !.exists = TRUE], OneComposerDb}, s \in Storages}

(***************************************************************************)
(* Spec: extraction passes.  Each behaviour fixes the reader and what is on *)
(* disk, and runs up to MaxPasses passes of that reader over it, the wall   *)
(* clock advancing from one pass to the next.                               *)
(***************************************************************************)
Init ==
    /\ now = Now0
    /\ RestIdle
    /\ TsIdle
    /\ PfIdle
    /\ MpIdle
    /\ \/ reader = "claude" /\ env \in ClaudeEnvs
       \/ reader = "cursor" /\ env \in CursorEnvs
    /\ passNo = 1
    /\ pc = "ready"
    /\ out = <<>>
    /\ emptyCount = 0
    /\ prevOut = <<>>
    /\ projects = JsUndefined

\* readChatHistories runs
RunClaudePass ==
    /\ reader = "claude" /\ pc = "ready"
    /\ out' = readChatHistories(env)
    /\ pc' = "done"
    /\ UNCHANGED <<now, tsVars, pfVars, reader, env, passNo, emptyCount, prevOut, projects,
                   mpVars, restVars>>

\* readCursorHistories runs
RunCursorPass ==
    /\ reader = "cursor" /\ pc = "ready"
    /\ LET Returned(got) == out' = got.out /\ emptyCount' = got.empty
       IN  Returned(readCursorHistories(env))
    /\ pc' = "done"
    /\ UNCHANGED <<now, tsVars, pfVars, reader, env, passNo, prevOut, projects, mpVars, restVars>>

\* the next periodic sync starts the next pass, a millisecond or more later
NextPass ==
    /\ pc \in {"done", "merged"} /\ passNo < MaxPasses
    /\ \E dt \in 1..MaxTicks : now' = BAddSmall(now, dt)
    /\ passNo' = passNo + 1
    /\ prevOut' = out
    /\ out' = <<>>
    /\ emptyCount' = 0
    /\ projects' = JsUndefined
    /\ pc' = "ready"
    /\ UNCHANGED <<tsVars, pfVars, reader, env, mpVars, restVars>>

\* the sessions of out, without their source keys
Histories == [i \in 1..Len(out) |-> out[i].h]

\* the caller extracts the projects of the sessions the reader returned and
\* merges them with those of the other reader, which returned no session
\* (activity-syncer.ts, lines 149-151); an exception leaves the three calls
ExtractProjects ==
    /\ pc = "done"
    /\ LET Merged(cursorProjects, claudeCodeProjects) ==
               IF claudeCodeProjects.t = "throw" THEN claudeCodeProjects
               ELSE IF cursorProjects.t = "throw" THEN cursorProjects
               ELSE JsArray(mergeProjects(cursorProjects.items, claudeCodeProjects.items))
       IN  projects' =
               IF reader = "claude"
               THEN Merged(extractProjectsFromConversations(<<>>),
                           extractProjectsFromClaudeCodeHistories(Histories))
               ELSE Merged(extractProjectsFromConversations(Histories),
                           extractProjectsFromClaudeCodeHistories(<<>>))
    /\ pc' = "merged"
    /\ UNCHANGED <<now, tsVars, pfVars, reader, env, passNo, out, emptyCount, prevOut, mpVars, restVars>>

Next == RunClaudePass \/ RunCursorPass \/ ExtractProjects \/ NextPass

Spec == Init /\ [][Next]_vars

(***************************************************************************)
(* Properties of the extraction passes (Spec).                              *)
(***************************************************************************)
Sources(sessions) == {sessions[i].src : i \in 1..Len(sessions)}

\* C1: every session returned by readChatHistories and every conversation
\* returned by readCursorHistories (composer and copilot) has at least one
\* message.
C1_NoEmptySession ==
    \A i \in 1..Len(out) : Len(out[i].h.messages) >= 1

\* a pass of readChatHistories met a log file that parses to a session
\* without messages and a log file that parses to a session with messages
C1_Witness ==
    /\ reader = "claude" /\ pc = "done"
    /\ \E di \in 1..Len(env.dirs) : \E fi \in 1..Len(env.dirs[di].files) :
          LET history == parseSessionFile(env.dirs[di].files[fi],
                                          DecodeProjectDir(env.dirs[di].name))
          IN  /\ fi + 1 \in 1..Len(env.dirs[di].files)
              /\ history.t = "object" /\ history.messages = <<>>
              /\ <<"file", di, fi>> \notin Sources(out)
              /\ <<"file", di, fi + 1>> \in Sources(out)

\* C2: within one pass, sessions produced from distinct source keys (log
\* files, composer records, copilot session positions) never have the same
\* id.
C2_DistinctIds ==
    \A i, j \in 1..Len(out) : out[i].src # out[j].src => out[i].h.id # out[j].h.id

\* C3: two passes over unchanged source data give the same id to the same
\* source key (log file, composer record, copilot session position).
C3_StableIds ==
    (passNo > 1 /\ pc = "done") =>
        \A i \in 1..Len(out) : \A j \in 1..Len(prevOut) :
            out[i].src = prevOut[j].src => out[i].h.id = prevOut[j].h.id

\* a second pass of readCursorHistories, at a later time, returned a
\* composer conversation and a copilot session that the pass before it
\* returned too
C3_Witness ==
    /\ reader = "cursor" /\ passNo = 2 /\ pc = "done" /\ now # Now0
    /\ \E i, j \in 1..Len(out) :
          /\ out[i].src[1] = "composer" /\ out[j].src[1] = "copilot"
          /\ out[i].src \in Sources(prevOut) /\ out[j].src \in Sources(prevOut)

\* the sessions of the log file fi of the project directory di, read alone
FileAlone(di, fi) ==
    LET d == env.dirs[di]
        f == d.files[fi]
        history == parseSessionFile(f, DecodeProjectDir(d.name))
    IN  IF /\ d.stat = "dir" /\ d.list /\ EndsWith(f.name, JsonlExt)
           /\ (env.lookback => f.stat = "fresh")
           /\ KeepHistory(history)
        THEN {<<"file", di, fi>>} ELSE {}

\* the sessions of the workspace directory wi, read alone
WorkspaceAlone(wi) ==
    IF env.storage.dirs[wi].stat = "dir"
    THEN Sources(WorkspaceSessions(env.storage.dirs[wi], wi)) ELSE {}

\* C5: an artifact that cannot be read (a session file or project directory
\* that cannot be stat'ed or read, a workspace directory or database that
\* cannot be opened) is skipped, and the sessions of every other artifact of
\* the pass are still returned.
C5_UnreadableSkipped ==
    pc = "done" =>
        /\ reader = "claude" =>
              \A di \in 1..Len(env.dirs) : \A fi \in 1..Len(env.dirs[di].files) :
                  FileAlone(di, fi) \subseteq Sources(out)
        /\ reader = "cursor" =>
              \A wi \in 1..Len(env.storage.dirs) : WorkspaceAlone(wi) \subseteq Sources(out)

\* C10: the timestamp of every session and of every message returned by a
\* reader parses as a valid ISO-8601 date.
C10_ValidTimestamps ==
    \A i \in 1..Len(out) :
        /\ IsIsoDateString(out[i].h.timestamp)
        /\ \A k \in 1..Len(out[i].h.messages) :
              IsIsoDateString(out[i].h.messages[k].timestamp)

\* the timestamps a and b both parse as dates, and a is the later instant
LaterThan(a, b) ==
    LET Less(x, y) ==
            /\ x.valid /\ y.valid
            /\ (x.day < y.day \/ (x.day = y.day /\ x.ms < y.ms))
    IN  a.t = "string" /\ b.t = "string" /\ Less(DateParse(b.s), DateParse(a.s))

\* C11: the timestamp of every session returned by a reader is the timestamp
\* of one of its messages, and no message of the session has a later one.
C11_TimestampIsLatest ==
    \A i \in 1..Len(out) :
        /\ \E k \in 1..Len(out[i].h.messages) :
              out[i].h.messages[k].timestamp = out[i].h.timestamp
        /\ \A k \in 1..Len(out[i].h.messages) :
              ~LaterThan(out[i].h.messages[k].timestamp, out[i].h.timestamp)

\* the display text of a message: display in a Claude Code session, content
\* in a Cursor conversation
DisplayText(message) ==
    IF "display" \in DOMAIN message THEN message.display ELSE message.content

\* C12: the display text of every message returned by a reader is a string
\* that is not empty once white space is trimmed from its ends.
C12_NonEmptyDisplay ==
    \A i \in 1..Len(out) : \A k \in 1..Len(out[i].h.messages) :
        /\ DisplayText(out[i].h.messages[k]).t = "string"
        /\ Trim(DisplayText(out[i].h.messages[k]).s) # <<>>

(***************************************************************************)
(* Properties of parseSessionFile on content lists and on the session id    *)
(* and summary (SpecParse).                                                 *)
(***************************************************************************)
\* the texts of the parts of a content list that are tagged as text, joined
\* in list order
RECURSIVE TextOfParts(_)
TextOfParts(parts) ==
    IF parts = <<>> THEN <<>>
    ELSE (IF /\ OptField(parts[1], "type") = JsString(<<"t", "e", "x", "t">>)
             /\ Field(parts[1], "text").t = "string"
          THEN Field(parts[1], "text").s ELSE <<>>)
             \o TextOfParts(Tail(parts))

\* the display texts of the messages of a file when each user or assistant
\* record whose content is a list gives one message, the text parts of the
\* list joined (none when they join to the empty string), and a record with
\* any other content gives the messages parseSessionFile gives for it
RECURSIVE JoinedDisplays(_)
JoinedDisplays(lines) ==
    LET Displays(messages) == [k \in 1..Len(messages) |-> messages[k].display]
        OfContent(content) ==
            IF JsFalsy(content) THEN <<>>
            ELSE IF content.t = "array"
            THEN (IF TextOfParts(content.items) = <<>> THEN <<>>
                  ELSE <<JsString(TextOfParts(content.items))>>)
            ELSE Displays(PartMessages(<<content>>, "user", JsString(<<>>)))
        OfLine(line) ==
            IF IsObjectLine(line) /\ Field(line.data, "type") \in {TypeUser, TypeAssistant}
            THEN OfContent(OptField(Field(line.data, "message"), "content"))
            ELSE <<>>
    IN  IF lines = <<>> THEN <<>>
        ELSE OfLine(lines[1]) \o JoinedDisplays(Tail(lines))

\* C13: in the session parseSessionFile returns, a record whose content is a
\* list of typed parts stands for one message, whose display text is the
\* texts of the parts tagged as text, joined in list order.
C13_TextPartsJoined ==
    pfPc = "done" =>
        LET messages == ParseFields(pfResult, pfFile.name).messages
        IN  [k \in 1..Len(messages) |-> messages[k].display]
                = JoinedDisplays(pfFile.lines)

\* the sessionId of the last line of lines that is JSON of an object with a
\* sessionId, or else default
RECURSIVE LastSessionId(_, _)
LastSessionId(lines, default) ==
    IF lines = <<>> THEN default
    ELSE IF /\ IsObjectLine(lines[Len(lines)])
            /\ ~JsFalsy(Field(lines[Len(lines)].data, "sessionId"))
    THEN Field(lines[Len(lines)].data, "sessionId")
    ELSE LastSessionId(SubSeq(lines, 1, Len(lines) - 1), default)

\* the summary of the last line of lines that is JSON of a summary record,
\* undefined without such a line
RECURSIVE LastSummary(_)
LastSummary(lines) ==
    IF lines = <<>> THEN JsUndefined
    ELSE IF /\ IsObjectLine(lines[Len(lines)])
            /\ Field(lines[Len(lines)].data, "type") = TypeSummary
            /\ ~JsFalsy(Field(lines[Len(lines)].data, "summary"))
    THEN Field(lines[Len(lines)].data, "summary")
    ELSE LastSummary(SubSeq(lines, 1, Len(lines) - 1))

IsHexDigit(c) == IsDigit(c) \/ c \in {"a", "b", "c", "d", "e", "f"}

\* s without its characters "-"
Undashed(s) == SelectSeq(s, LAMBDA c : c # "-")

\* C15: the id generateDeterministicUUID gives a copilot session is made of
\* groups of 8, 4, 4, 4 and 12 hexadecimal digits; the first digit of the
\* third group is 4, the first digit of the fourth group is one of the
\* variant digits 8, 9, a, b, and every other digit is the digit of the MD5
\* digest of the session key at the same place.
C15_UuidV4Shape ==
    \A i \in 1..Len(out) :
        out[i].src[1] = "copilot" =>
            LET id == out[i].h.id.s
                hash == Md5Hex(SessionKey(env.storage.dirs[out[i].src[2]].name,
                                          out[i].src[3]))
            IN  /\ Len(id) = 36
                /\ \A j \in 1..36 : IF j \in {9, 14, 19, 24} THEN id[j] = "-"
                                    ELSE IsHexDigit(id[j])
                /\ id[15] = "4"
                /\ id[20] \in {"8", "9", "a", "b"}
                /\ \A j \in (1..32) \ {13, 17} : Undashed(id)[j] = hash[j]

(***************************************************************************)
(* Properties of the composer part of readCursorHistories (Spec).           *)
(***************************************************************************)
\* the table cursorDiskKV holds rows composerData:<id>
KvHoldsComposers(db) == db.kv /\ Len(db.composers) > 0

\* the table ItemTable holds the row composer.composerData, with composers
ItemHoldsComposers(db) ==
    /\ db.item /\ db.itemData.t # "undefined"
    /\ OptField(JsonParse(db.itemData), "allComposers").t = "array"
    /\ OptField(JsonParse(db.itemData), "allComposers").items # <<>>

\* the sessions of out that are composer conversations
ComposerSessions == SelectSeq(out, LAMBDA s : s.src[1] = "composer")

\* C16: on a global state database that opens, detectStorageFormat selects
\* cursorDiskKV when cursorDiskKV holds composerData rows and ItemTable when
\* only ItemTable holds composer data, and every composer conversation of
\* the pass comes from a composer of the selected variant.
C16_OneVariantSelected ==
    (reader = "cursor" /\ pc = "done" /\ env.db.exists /\ env.db.opens) =>
        /\ KvHoldsComposers(env.db) => detectStorageFormat(env.db) = "cursorDiskKV"
        /\ (ItemHoldsComposers(env.db) /\ ~KvHoldsComposers(env.db))
               => detectStorageFormat(env.db) = "ItemTable"
        /\ \A i \in 1..Len(ComposerSessions) :
              /\ detectStorageFormat(env.db) = "cursorDiskKV"
              /\ \E r \in 1..Len(env.db.composers) :
                    env.db.composers[r].id = ComposerSessions[i].src[2]

\* the conversation array stored in the row composerData:<composerId>
InlineBubbles(composerId) ==
    LET OfConversation(conversation) ==
            IF conversation.t = "array" THEN conversation.items ELSE <<>>
        OfRow(r) == OfConversation(OptField(JsonParse(env.db.composers[r].value),
                                            "conversation"))
    IN  OfRow(CHOOSE r \in 1..Len(env.db.composers) : env.db.composers[r].id = composerId)

\* the rows bubbleId:<composerId>:<bubbleId> of the composer
SeparateBubbles(composerId) ==
    SelectSeq(env.db.bubbles, LAMBDA row : row.composerId = composerId)

\* C17: the messages of a composer conversation come from the bubbles of
\* its conversation array when that array is not empty, and otherwise from
\* the bubbles stored in separate rows under its id; never from both.
C17_OneRepresentation ==
    \A i \in 1..Len(ComposerSessions) :
        LET messages == ComposerSessions[i].h.messages
            inline == InlineBubbles(ComposerSessions[i].src[2])
            separate == SeparateBubbles(ComposerSessions[i].src[2])
        IN  IF inline # <<>>
            THEN /\ Len(messages) <= Len(inline)
                 /\ \A k \in 1..Len(messages) : \E b \in 1..Len(inline) :
                       messages[k].bubbleId = OptField(inline[b], "bubbleId")
            ELSE /\ Len(messages) <= Len(separate)
                 /\ \A k \in 1..Len(messages) : \E b \in 1..Len(separate) :
                       messages[k].bubbleId = JsString(separate[b].bubbleId)

\* a pass returned a conversation of two messages for a composer that has a
\* conversation array of two bubbles and bubbles in separate rows, and a
\* conversation for a composer that has bubbles in separate rows only
C17_Witness ==
    /\ reader = "cursor" /\ pc = "done"
    /\ \E i, j \in 1..Len(ComposerSessions) :
          /\ Len(InlineBubbles(ComposerSessions[i].src[2])) = 2
          /\ SeparateBubbles(ComposerSessions[i].src[2]) # <<>>
          /\ Len(ComposerSessions[i].h.messages) = 2
          /\ InlineBubbles(ComposerSessions[j].src[2]) = <<>>
          /\ Len(ComposerSessions[j].h.messages) = 1
          /\ ComposerSessions[j].h.messages[1].bubbleId = JsString(<<"b", "3">>)

(***************************************************************************)
(* Properties of the count of empty conversations (Spec).                   *)
(***************************************************************************)
\* the log files readChatHistories gets a session for from parseSessionFile
ExaminedFiles ==
    {p \in UNION {{<<di, fi>> : fi \in 1..Len(env.dirs[di].files)}
                  : di \in 1..Len(env.dirs)} :
        /\ env.dirs[p[1]].stat = "dir" /\ env.dirs[p[1]].list
        /\ EndsWith(env.dirs[p[1]].files[p[2]].name, JsonlExt)
        /\ (env.lookback => env.dirs[p[1]].files[p[2]].stat = "fresh")
        /\ parseSessionFile(env.dirs[p[1]].files[p[2]],
                            DecodeProjectDir(env.dirs[p[1]].name)).t = "object"}

\* no statSync or readdirSync of the pass of readChatHistories throws
ClaudePassCompletes ==
    \A di \in 1..Len(env.dirs) :
        /\ env.dirs[di].stat # "throws"
        /\ env.dirs[di].stat = "dir" => env.dirs[di].list
        /\ \A fi \in 1..Len(env.dirs[di].files) :
              (env.lookback /\ EndsWith(env.dirs[di].files[fi].name, JsonlExt))
                  => env.dirs[di].files[fi].stat # "throws"

\* the composers readCursorHistories builds conversations from
ExaminedComposers ==
    IF detectStorageFormat(env.db) = "ItemTable"
    THEN Len(readComposersFromItemTable(env.db))
    ELSE Len(readComposersFromCursorDiskKV(env.db))

\* the elements of interactive.sessions of a workspace directory whose
\* sessions readCopilotSessions reads; <<>> for any other directory entry
WorkspaceSessionValues(workspaceDir) ==
    LET OfSessions(sessionsArray) ==
            IF sessionsArray.t = "array" THEN sessionsArray.items ELSE <<>>
    IN  IF /\ workspaceDir.stat = "dir" /\ workspaceDir.hasDb
           /\ getWorkspaceInfo(workspaceDir).t # "null"
           /\ workspaceDir.opens /\ workspaceDir.item
           /\ workspaceDir.sessions.t # "undefined"
        THEN OfSessions(JsonParse(workspaceDir.sessions))
        ELSE <<>>

\* the number of copilot sessions in the workspace directories from wi on
RECURSIVE ExaminedCopilotSessions(_)
ExaminedCopilotSessions(wi) ==
    IF wi > Len(env.storage.dirs) THEN 0
    ELSE Len(WorkspaceSessionValues(env.storage.dirs[wi])) + ExaminedCopilotSessions(wi + 1)

\* nothing throws while the session is read
SessionCompletes(sessionData) ==
    /\ sessionData.t = "object"
    /\ Field(sessionData, "requests").t = "array"
          => ~RequestMessages(Field(sessionData, "requests").items, <<>>, <<>>).threw

\* the pass of readCursorHistories reads the global database and every
\* workspace to the end
CursorPassCompletes ==
    /\ env.db.exists /\ env.db.opens
    /\ ~ReadComposerConversations(env.db).threw
    /\ \A wi \in 1..Len(env.storage.dirs) :
          /\ env.storage.dirs[wi].stat # "throws"
          /\ \A k \in 1..Len(WorkspaceSessionValues(env.storage.dirs[wi])) :
                SessionCompletes(WorkspaceSessionValues(env.storage.dirs[wi])[k])

\* C18: after a pass that ran to the end, the sessions returned and the
\* conversations counted as empty are together as many as the conversations
\* the pass examined (log files parsed, composers, copilot sessions): each
\* conversation without messages is left out and counted once.
C18_EmptyCounted ==
    pc = "done" =>
        /\ (reader = "claude" /\ ClaudePassCompletes)
               => Len(out) + emptyCount = Cardinality(ExaminedFiles)
        /\ (reader = "cursor" /\ CursorPassCompletes)
               => Len(out) + emptyCount = ExaminedComposers + ExaminedCopilotSessions(1)

(***************************************************************************)
(* Properties of project extraction after a pass (Spec).                    *)
(***************************************************************************)
\* C19: the project extraction and merge that follow a pass return a list
\* of projects, whatever sessions the reader returned; they do not throw.
C19_PipelineNeverThrows ==
    pc = "merged" => projects.t = "array"

(***************************************************************************)
(* SpecMerge: one call of mergeProjects on the lists the two extraction     *)
(* functions can return: at most MaxProjects projects each, no path twice   *)
(* in a list, lastActivity a string made by toISOString.                    *)
(***************************************************************************)
\* "/p/a", "/p/b", "/p/c", "/p/d"
ProjectPaths == [i \in 1..4 |-> JsString(<<"/", "p", "/", Letters[i]>>)]

\* 1.7 * 10^15, the time of CreatedMs in microseconds
CreatedMicros == JsNumber(FALSE, <<1700, 0, 0>>)

\* the ISO strings of 2023-11-14T22:13:20Z, of a minute later and of the
\* date that CreatedMicros is when read as milliseconds
ActivitySamples ==
    {DateToISOString(DateFromNumber(ms)) : ms \in {CreatedMs, UpdatedMs, CreatedMicros}}

\* the projects extractProjectsFromConversations can return for a path
CursorProjectKinds(path) ==
    {[name |-> JsString(Basename(path.s)), path |-> path, workspaceIds |-> k[1],
      composerCount |-> k[2], copilotSessionCount |-> k[3], lastActivity |-> a]
     : k \in {<<<<>>, 1, 0>>,
              <<<<JsString(WorkspaceId(1))>>, 0, 2>>,
              <<<<JsString(WorkspaceId(1)), JsString(WorkspaceId(2))>>, 1, 2>>},
       a \in ActivitySamples}

\* the projects extractProjectsFromClaudeCodeHistories can return for a path
ClaudeProjectKinds(path) ==
    {[name |-> JsString(Basename(path.s)), path |-> path, workspaceIds |-> <<>>,
      claudeCodeSessionCount |-> n, lastActivity |-> a]
     : n \in {1, 2}, a \in ActivitySamples}

\* the lists of at most n projects with distinct paths of the set paths
RECURSIVE CursorProjectLists(_, _)
CursorProjectLists(paths, n) ==
    {<<>>} \cup
    (IF n = 0 THEN {}
     ELSE UNION {{<<p>> \o rest : p \in CursorProjectKinds(q),
                                  rest \in CursorProjectLists(paths \ {q}, n - 1)}
                 : q \in paths})

RECURSIVE ClaudeProjectLists(_, _)
ClaudeProjectLists(paths, n) ==
    {<<>>} \cup
    (IF n = 0 THEN {}
     ELSE UNION {{<<p>> \o rest : p \in ClaudeProjectKinds(q),
                                  rest \in ClaudeProjectLists(paths \ {q}, n - 1)}
                 : q \in paths})

MpInit ==
    /\ now = Now0
    /\ RestIdle
    /\ TsIdle
    /\ PfIdle
    /\ PassIdle
    /\ mpCursor \in CursorProjectLists({ProjectPaths[i] : i \in 1..MaxProjects}, MaxProjects)
    /\ mpClaude \in ClaudeProjectLists({ProjectPaths[i] : i \in 1..MaxProjects}, MaxProjects)
    /\ mpResult = <<>>
    /\ mpPc = "call"

MpCall ==
    /\ mpPc = "call"
    /\ mpResult' = mergeProjects(mpCursor, mpClaude)
    /\ mpPc' = "done"
    /\ UNCHANGED <<now, tsVars, pfVars, passVars, mpCursor, mpClaude, restVars>>

MpNext == MpCall

SpecMerge == MpInit /\ [][MpNext]_vars

\* the elements of a sequence
Range(s) == {s[i] : i \in 1..Len(s)}

\* the input records that have the path
WithPath(path) ==
    {p \in Range(mpCursor) \cup Range(mpClaude) : p.path = path}

\* the count f of the record of list that has the path, 0 without one
CountOf(list, path, f) ==
    IF PathIndex(list, path) = 0 THEN 0 ELSE list[PathIndex(list, path)][f]

\* C20: mergeProjects returns one record for each path of its inputs; the
\* record has the workspace ids of all the input records of that path, the
\* composer and copilot counts of the Cursor record, the Claude Code count
\* of the Claude Code record, and the lastActivity of one of the input
\* records of the path, none of which is later.
C20_MergeByPath ==
    mpPc = "done" =>
        /\ \A i, j \in 1..Len(mpResult) : mpResult[i].path = mpResult[j].path => i = j
        /\ {r.path : r \in Range(mpResult)}
               = {p.path : p \in Range(mpCursor) \cup Range(mpClaude)}
        /\ \A r \in Range(mpResult) :
              /\ Range(r.workspaceIds) = UNION {Range(p.workspaceIds) : p \in WithPath(r.path)}
              /\ r.composerCount = CountOf(mpCursor, r.path, "composerCount")
              /\ r.copilotSessionCount = CountOf(mpCursor, r.path, "copilotSessionCount")
              /\ r.claudeCodeSessionCount = CountOf(mpClaude, r.path, "claudeCodeSessionCount")
              /\ \E p \in WithPath(r.path) : r.lastActivity = p.lastActivity
              /\ \A p \in WithPath(r.path) : ~LaterThan(p.lastActivity, r.lastActivity)

-----------------------------------------------------------------------------
\* Order of the sessions given to the project extraction

\* the orders a list of n elements can be put in
Orders(n) ==
    {p \in [1..n -> 1..n] : \A i, j \in 1..n : p[i] = p[j] => i = j}

Permuted(list, p) == [i \in 1..Len(list) |-> list[p[i]]]

\* what an extraction says of each path: its counts and its lastActivity, or
\* the error it throws
ProjectFacts(result) ==
    IF result.t = "throw" THEN {result}
    ELSE {[f \in DOMAIN result.items[i] \ {"name", "workspaceIds"} |-> result.items[i][f]] :
              i \in 1..Len(result.items)}

\* C21: the projects extracted from the sessions of a pass have, for each
\* path, the same counts and the same lastActivity in whatever order the
\* sessions are given to extractProjectsFromClaudeCodeHistories (Claude Code
\* pass) or extractProjectsFromConversations (Cursor pass).
C21_OrderIndependent ==
    pc = "done" =>
        LET Same(facts) ==
                \A p \in Orders(Len(out)) :
                    ProjectFacts(IF reader = "claude"
                                 THEN extractProjectsFromClaudeCodeHistories(Permuted(Histories, p))
                                 ELSE extractProjectsFromConversations(Permuted(Histories, p)))
                        = facts
        IN  Same(ProjectFacts(IF reader = "claude"
                              THEN extractProjectsFromClaudeCodeHistories(Histories)
                              ELSE extractProjectsFromConversations(Histories)))

(***************************************************************************)
(* SpecSync: runs of syncProjects, one after the other, against the remote *)
(* table projects.                                                         *)
(***************************************************************************)
Accounts == {JsString(<<"u", "1">>), JsString(<<"u", "2">>)}

\* two projects of the same directory name under different parents, and a
\* third one
SyncPaths ==
    {JsString(<<"/", "p", "/", "a">>), JsString(<<"/", "q", "/", "a">>),
     JsString(<<"/", "p", "/", "b">>)}

\* the records mergeProjects returns for a path
SyncProjectKinds(path) ==
    {[name |-> JsString(Basename(path.s)), path |-> path, workspaceIds |-> <<>>,
      composerCount |-> 0, copilotSessionCount |-> 0, claudeCodeSessionCount |-> n,
      lastActivity |-> DateToISOString(DateFromNumber(CreatedMs))]
     : n \in {1, 2}}

\* the lists of at most n records with distinct paths of the set paths
RECURSIVE SyncProjectLists(_, _)
SyncProjectLists(paths, n) ==
    {<<>>} \cup
    (IF n = 0 THEN {}
     ELSE UNION {{<<p>> \o rest : p \in SyncProjectKinds(q),
                                  rest \in SyncProjectLists(paths \ {q}, n - 1)}
                 : q \in paths})

\* uploader.ts, lines 271-288: the row of the upsert; on a conflict on
\* (user_id, name) the row there is is replaced
ProjectRow(project, accountId) ==
    [user_id |-> accountId, name |-> project.name, project_path |-> project.path,
     workspace_metadata |->
         [f \in {"workspaceIds", "composerCount", "copilotSessionCount",
                 "claudeCodeSessionCount", "lastActivity"} |-> project[f]]]

Upserted(rows, row) ==
    {r \in rows : ~(r.user_id = row.user_id /\ r.name = row.name)} \cup {row}

\* uploader.ts, lines 248-306: the table after the call and whether an id
\* is returned; failed says that the request ends in an error
upsertProject(rows, project, accountId, tokens, failed) ==
    IF accountId = JsNull \/ ~tokens THEN [rows |-> rows, id |-> FALSE]
    ELSE IF failed THEN [rows |-> rows, id |-> FALSE]
    ELSE [rows |-> Upserted(rows, ProjectRow(project, accountId)), id |-> TRUE]

\* uploader.ts, lines 311-330: the loop over the projects from the i-th on
RECURSIVE SyncLoop(_, _, _, _, _, _)
SyncLoop(st, projectList, i, accountId, tokens, failing) ==
    LET After(r) ==
            SyncLoop([rows |-> r.rows,
                      ids |-> IF r.id THEN st.ids \cup {<<accountId, projectList[i].path>>}
                              ELSE st.ids],
                     projectList, i + 1, accountId, tokens, failing)
    IN  IF i > Len(projectList) THEN st
        ELSE After(upsertProject(st.rows, projectList[i], accountId, tokens, i \in failing))

SyncInit ==
    /\ now = Now0
    /\ TsIdle
    /\ PfIdle
    /\ PassIdle
    /\ MpIdle
    /\ PiIdle
    /\ AiIdle
    /\ DcIdle
    /\ SmIdle
    /\ DmIdle
    /\ AsIdle
    /\ store = {}
    /\ synced = {}

syncProjects ==
    /\ \E projectList \in SyncProjectLists(SyncPaths, MaxProjects),
          accountId \in Accounts \cup {JsNull}, tokens \in BOOLEAN,
          failing \in SUBSET (1..MaxProjects) :
          LET Done(st) == /\ store' = st.rows
                          /\ synced' = st.ids
          IN  Done(SyncLoop([rows |-> store, ids |-> synced], projectList, 1,
                            accountId, tokens, failing))
    /\ UNCHANGED <<coreVars, piVars, aiVars, dcVars, smVars, dmVars, asVars>>

SyncNext == syncProjects

SpecSync == SyncInit /\ [][SyncNext]_vars

\* C22: every project that a syncProjects run stored for an account has one
\* row of that account with its path in the table projects, whatever was
\* synced afterwards: records of different paths are kept apart, a record of
\* the same path is replaced.
C22_KeyedByAccountAndPath ==
    \A k \in synced :
        Cardinality({r \in store : r.user_id = k[1] /\ r.project_path = k[2]}) = 1

(***************************************************************************)
(* SpecProject: one inference of the project of a composer from its        *)
(* selections, and of a Copilot session from the folder of its workspace.   *)
(***************************************************************************)
MaxSelections == 2     \* selections in each list of a composer's context

PathOf(segments) == JsString(Join(segments, <<"/">>))

\* /U/Developer/proj/x.ts, /U/Developer/other/y.ts, /U/work/app/z.ts,
\* /U/Developer and /U/Developer/
SelectionPaths ==
    {PathOf(<<<<>>, <<"U">>, Developer, <<"p", "r", "o", "j">>, <<"x", ".", "t", "s">>>>),
     PathOf(<<<<>>, <<"U">>, Developer, <<"o", "t", "h", "e", "r">>, <<"y", ".", "t", "s">>>>),
     PathOf(<<<<>>, <<"U">>, <<"w", "o", "r", "k">>, <<"a", "p", "p">>, <<"z", ".", "t", "s">>>>),
     PathOf(<<<<>>, <<"U">>, Developer>>),
     PathOf(<<<<>>, <<"U">>, Developer, <<>>>>)}

\* a selection of each path, and one without a uri
SelectionValues ==
    {[t |-> "object", uri |-> [t |-> "object", fsPath |-> path]] : path \in SelectionPaths}
        \cup {[t |-> "object"]}

\* the folders of a workspace: none, a project under Developer, a folder
\* elsewhere, Developer itself
WorkspaceFolders ==
    {JsUndefined,
     PathOf(<<<<>>, <<"U">>, Developer, <<"p", "r", "o", "j">>>>),
     PathOf(<<<<>>, <<"U">>, <<"w", "o", "r", "k">>, <<"a", "p", "p">>>>),
     PathOf(<<<<>>, <<"U">>, Developer>>)}

PiInit ==
    /\ now = Now0
    /\ TsIdle
    /\ PfIdle
    /\ PassIdle
    /\ MpIdle
    /\ SyncIdle
    /\ AiIdle
    /\ DcIdle
    /\ SmIdle
    /\ DmIdle
    /\ AsIdle
    /\ \E files \in SeqsUpTo(SelectionValues, MaxSelections),
          folders \in SeqsUpTo(SelectionValues, MaxSelections) :
          piComposer = [t |-> "object",
                        context |-> [t |-> "object",
                                     fileSelections |-> JsArray(files),
                                     folderSelections |-> JsArray(folders)]]
    /\ piFolder \in WorkspaceFolders
    /\ piResult = JsUndefined
    /\ piFolderResult = JsUndefined
    /\ piPc = "call"

PiCall ==
    /\ piPc = "call"
    /\ piResult' = extractProjectInfo(piComposer)
    /\ piFolderResult' = FolderProject(piFolder)
    /\ piPc' = "done"
    /\ UNCHANGED <<coreVars, syncVars, aiVars, dcVars, smVars, dmVars, asVars, piComposer, piFolder>>

PiNext == PiCall

SpecProject == PiInit /\ [][PiNext]_vars

\* the paths of the selections of a composer that have one, file selections
\* before folder selections
CandidatePaths(composerData) ==
    LET Paths(selections) ==
            SelectSeq([i \in 1..Len(selections) |->
                           OptField(Field(selections[i], "uri"), "fsPath")],
                      LAMBDA v : v.t = "string")
    IN  Paths(composerData.context.fileSelections.items)
            \o Paths(composerData.context.folderSelections.items)

\* a path holds the segment Developer followed by another segment
HasProject(path) ==
    \E i \in 1..(Len(Split(path.s)) - 1) : Split(path.s)[i] = Developer

\* C23: the project of a composer is that of the first candidate path, file
\* selections before folder selections, that holds the segment Developer
\* followed by another segment: projectName is the segment after Developer,
\* projectPath the path up to and including it; later candidates do not
\* change it; without such a candidate both are absent.
C23_FirstCandidateWins ==
    piPc = "done" =>
        LET Expected(paths) ==
                IF \E i \in 1..Len(paths) : HasProject(paths[i])
                THEN LET first == paths[CHOOSE i \in 1..Len(paths) :
                                            /\ HasProject(paths[i])
                                            /\ \A k \in 1..(i - 1) : ~HasProject(paths[k])]
                         parts == Split(first.s)
                         at == CHOOSE i \in 1..(Len(parts) - 1) :
                                   /\ parts[i] = Developer
                                   /\ \A k \in 1..(i - 1) : parts[k] # Developer
                     IN  [projectName |-> JsString(parts[at + 1]),
                          projectPath |-> JsString(Join(SubSeq(parts, 1, at + 1), <<"/">>))]
                ELSE NoProject
        IN  [projectName |-> piResult.projectName, projectPath |-> piResult.projectPath]
                = Expected(CandidatePaths(piComposer))

\* C24: a Copilot session whose workspace folder is known and holds no
\* segment Developer followed by another segment has the basename of that
\* folder as projectName; a composer none of whose candidate paths holds such
\* a segment has the last two segments of its first candidate path, joined,
\* as its project.
C24_FallbackInference ==
    piPc = "done" =>
        LET LastTwo(parts) == Join(SubSeq(parts, Len(parts) - 1, Len(parts)), <<"/">>)
            OfCandidates(paths) ==
                (paths # <<>> /\ \A i \in 1..Len(paths) : ~HasProject(paths[i]))
                    => piResult.projectName = JsString(LastTwo(Split(paths[1].s)))
        IN  /\ (piFolder # JsUndefined /\ ~HasProject(piFolder))
                => piFolderResult.projectName = JsString(Basename(piFolder.s))
            /\ OfCandidates(CandidatePaths(piComposer))

(***************************************************************************)
(* SpecAi: one call of generateSessionSummary, generateKeywordClassification*)
(* or generateSessionTitle (electron-main.ts, lines 358-586), split at the  *)
(* points where the call waits for the API or for the backoff timer.        *)
(***************************************************************************)
MaxRetries == 2        \* largest value of the argument retries

\* the values of DEVELOPMENT: not set, empty, "true" and "false"
DevelopmentValues == {JsUndefined, JsString(<<>>), JsString(<<"t", "r", "u", "e">>),
                      JsString(<<"f", "a", "l", "s", "e">>)}

\* the values of OPENAI_API_KEY: not set, empty, a key
ApiKey == JsString(<<"s", "k", "-", "1">>)
KeyValues == {JsUndefined, JsString(<<>>), ApiKey}

\* line 270
isDevelopment(e) == e.DEVELOPMENT = JsString(<<"t", "r", "u", "e">>)

\* line 271
hasOpenAIKey(e) == ~JsFalsy(e.OPENAI_API_KEY)

\* the fallback test without the development switch
useFallbackKeyOnly(e) == ~hasOpenAIKey(e)

\* line 276
useFallback(e) == isDevelopment(e) \/ ~hasOpenAIKey(e)

\* the retry test for every error
ShouldRetryAnyError(code, attempt, retries) == attempt < retries

\* lines 413, 493, 570
ShouldRetry(code, attempt, retries) ==
    code = "rate_limit_exceeded" /\ attempt < retries

AiInit ==
    /\ now = Now0
    /\ TsIdle
    /\ PfIdle
    /\ PassIdle
    /\ MpIdle
    /\ SyncIdle
    /\ PiIdle
    /\ DcIdle
    /\ SmIdle
    /\ DmIdle
    /\ AsIdle
    /\ aiEnv \in [DEVELOPMENT : DevelopmentValues, OPENAI_API_KEY : KeyValues]
    /\ aiKind \in {"summary", "keywords", "title"}
    /\ aiMessages \in 0..1
    /\ aiRetries \in 0..MaxRetries
    /\ aiAttempt = 0
    /\ aiRequests = 0
    /\ aiError = "none"
    /\ aiResult = "none"
    /\ aiPc = "call"

\* lines 358-393 (431-468, 515-550): up to the loop
AiCall ==
    /\ aiPc = "call"
    /\ IF aiMessages = 0
       THEN aiResult' = "no messages" /\ aiPc' = "returned"
       ELSE IF useFallback(aiEnv)
       THEN aiResult' = "mock" /\ aiPc' = "returned"
       ELSE aiResult' = aiResult /\ aiPc' = "loop"
    /\ aiAttempt' = 0
    /\ UNCHANGED <<coreVars, syncVars, piVars, dcVars, smVars, dmVars, asVars, aiEnv, aiKind, aiMessages, aiRetries,
                   aiRequests, aiError>>

\* lines 393-395: the loop test and the request of an attempt; after the
\* loop, lines 428, 512, 585
AiRequest ==
    /\ aiPc = "loop"
    /\ IF aiAttempt <= aiRetries
       THEN /\ aiRequests' = aiRequests + 1
            /\ aiPc' = "await"
            /\ aiResult' = aiResult
       ELSE /\ aiRequests' = aiRequests
            /\ aiPc' = IF aiKind = "keywords" THEN "returned" ELSE "thrown"
            /\ aiResult' = IF aiKind = "keywords" THEN "empty" ELSE "Failed after retries"
    /\ UNCHANGED <<coreVars, syncVars, piVars, dcVars, smVars, dmVars, asVars, aiEnv, aiKind, aiMessages, aiRetries,
                   aiAttempt, aiError>>

\* lines 410-425: the request ends, in a response or in an error
AiRespond ==
    /\ aiPc = "await"
    /\ \E code \in {"ok", "rate_limit_exceeded", "server_error"} :
          /\ aiError' = IF code = "ok" THEN aiError ELSE code
          /\ IF code = "ok"
             THEN aiResult' = "openai" /\ aiPc' = "returned"
             ELSE IF ShouldRetry(code, aiAttempt, aiRetries)
             THEN aiResult' = aiResult /\ aiPc' = "backoff"
             ELSE IF aiKind = "keywords"
             THEN aiResult' = "empty" /\ aiPc' = "returned"
             ELSE aiResult' = code /\ aiPc' = "thrown"
    /\ UNCHANGED <<coreVars, syncVars, piVars, dcVars, smVars, dmVars, asVars, aiEnv, aiKind, aiMessages, aiRetries,
                   aiAttempt, aiRequests>>

\* lines 418-419: the timer of the backoff fires, the loop goes on
AiBackoff ==
    /\ aiPc = "backoff"
    /\ aiAttempt' = aiAttempt + 1
    /\ aiPc' = "loop"
    /\ UNCHANGED <<coreVars, syncVars, piVars, dcVars, smVars, dmVars, asVars, aiEnv, aiKind, aiMessages, aiRetries,
                   aiRequests, aiError, aiResult>>

AiNext == AiCall \/ AiRequest \/ AiRespond \/ AiBackoff

SpecAi == AiInit /\ [][AiNext]_vars

\* the API answers every request and the backoff timer fires
SpecAiFair == SpecAi /\ WF_vars(AiNext)

\* C25: a call is in fallback mode exactly when DEVELOPMENT is "true" or
\* OPENAI_API_KEY is not set or empty, whether or not a key is set beside
\* DEVELOPMENT; in fallback mode the call sends no request and returns a
\* locally made value.
C25_FallbackSendsNothing ==
    LET fallback == \/ aiEnv.DEVELOPMENT = JsString(<<"t", "r", "u", "e">>)
                    \/ aiEnv.OPENAI_API_KEY \in {JsUndefined, JsString(<<>>)}
    IN  aiPc # "idle" =>
            /\ fallback => /\ aiRequests = 0
                           /\ aiPc \in {"call", "returned"}
                           /\ aiPc = "returned" => aiResult \in {"mock", "no messages"}
            /\ (~fallback /\ aiMessages > 0 /\ aiPc = "returned")
                   => aiResult \in {"openai", "empty"} /\ aiRequests > 0

\* a call in development mode, with a key configured, that returned
C25_Witness ==
    /\ aiPc = "returned" /\ aiResult = "mock"
    /\ aiEnv.DEVELOPMENT = JsString(<<"t", "r", "u", "e">>)
    /\ aiEnv.OPENAI_API_KEY = ApiKey

\* the call has ended
AiEnded == aiPc \in {"returned", "thrown"}

\* C27: a call of generateSessionSummary or generateSessionTitle with
\* retries = r sends at most r + 1 requests and ends; it waits and tries
\* again only after a rate_limit_exceeded error with attempts left; any
\* other error, and a rate limit error of the last attempt, is thrown at
\* once; the first response ends the call.
C27_BoundedRetries ==
    /\ [](aiKind \in {"summary", "title"} =>
            /\ aiRequests <= aiRetries + 1
            /\ aiAttempt <= aiRetries
            /\ aiPc = "backoff" => aiError = "rate_limit_exceeded" /\ aiAttempt < aiRetries
            /\ aiPc = "thrown" => aiResult = aiError /\ aiRequests = aiAttempt + 1
            /\ (aiPc = "returned" /\ aiResult = "openai") => aiRequests = aiAttempt + 1)
    /\ <>AiEnded

\* a call that was rate limited at every attempt but the last, which failed
C27_Witness ==
    /\ aiKind = "summary" /\ aiPc = "thrown" /\ aiRetries = MaxRetries
    /\ aiRequests = MaxRetries + 1 /\ aiError = "rate_limit_exceeded"

(***************************************************************************)
(* SpecDecode: a project directory is stored under ~/.claude/projects with  *)
(* the name that stands for the path of the project, and readChatHistories  *)
(* derives the path from the name.                                          *)
(***************************************************************************)
MaxSegments == 3       \* segments of a project path

\* Users, x, Developer, and a name with a hyphen in it
PathSegments ==
    {<<"U", "s", "e", "r", "s">>, <<"x">>, Developer, <<"a", "-", "o">>}

\* the absolute path of the segments
AbsolutePath(segments) == <<"/">> \o Join(segments, <<"/">>)

\* the name of the directory of a project: every '/' of the path is
\* replaced by '-'
EncodeProjectPath(path) == [i \in 1..Len(path) |-> IF path[i] = "/" THEN "-" ELSE path[i]]

DcInit ==
    /\ now = Now0
    /\ TsIdle
    /\ PfIdle
    /\ PassIdle
    /\ MpIdle
    /\ SyncIdle
    /\ PiIdle
    /\ AiIdle
    /\ SmIdle
    /\ DmIdle
    /\ AsIdle
    /\ \E segments \in SeqsUpTo(PathSegments, MaxSegments) :
          /\ segments # <<>>
          /\ dcPath = AbsolutePath(segments)
    /\ dcDir = <<>>
    /\ dcResult = <<>>
    /\ dcPc = "project"

\* the directory of the project is created
DcStore ==
    /\ dcPc = "project"
    /\ dcDir' = EncodeProjectPath(dcPath)
    /\ dcPc' = "stored"
    /\ UNCHANGED <<coreVars, syncVars, piVars, aiVars, smVars, dmVars, asVars, dcPath, dcResult>>

\* claude-code-reader.ts, lines 205-207
DcRead ==
    /\ dcPc = "stored"
    /\ dcResult' = DecodeProjectDir(dcDir)
    /\ dcPc' = "read"
    /\ UNCHANGED <<coreVars, syncVars, piVars, aiVars, smVars, dmVars, asVars, dcPath, dcDir>>

DcNext == DcStore \/ DcRead

SpecDecode == DcInit /\ [][DcNext]_vars

\* C26: the project path readChatHistories derives from the name of a
\* project directory is the path of the project the directory was named
\* after, also when a segment of the path has a '-' in it.
C26_DecodeInvertsEncode ==
    dcPc = "read" => dcResult = dcPath

(***************************************************************************)
(* SpecSummary: the periodic summary runs of the daemon over one session of *)
(* the remote table chat_histories, with the uploads that replace the       *)
(* messages of the session and the hours that pass (electron-main.ts,       *)
(* lines 596-673, 859-904, 1020-1064, 1114-1140).                           *)
(***************************************************************************)
MaxMessages == 3       \* messages of the session
MaxRuns == 3           \* periodic summary runs
MaxAge == 36           \* hours since the session was created
HoursPerStep == 12     \* hours that pass in one step of the clock
WithinHours == 24      \* getSessionsNeedingSummaryUpdate(24, userId)

\* a number read from, or written to, a column of the table
Count(n) == [t |-> "number", n |-> n]

\* the count recorded with a summary taken from the row as it is when the
\* summary is written
RecordedCountCurrent(messageCount, row) == Count(row.messages)

\* lines 874-875, 890: the count recorded with a summary is that of the
\* messages that were read before the summary was generated
RecordedCount(messageCount, row) == Count(messageCount)

\* lines 609, 641-670: whether getSessionsNeedingSummaryUpdate returns the
\* session of the row
NeedsSummaryUpdate(row, withinHours) ==
    /\ row.age <= withinHours
    /\ row.messages # 0
    /\ row.enabled
    /\ \/ row.ai_summary = JsNull
       \/ row.ai_summary_generated_at = JsNull
       \/ row.ai_summary_message_count # Count(row.messages)

SmInit ==
    /\ now = Now0
    /\ TsIdle
    /\ PfIdle
    /\ PassIdle
    /\ MpIdle
    /\ SyncIdle
    /\ PiIdle
    /\ AiIdle
    /\ DcIdle
    /\ DmIdle
    /\ AsIdle
    /\ \E n \in 1..MaxMessages, e \in BOOLEAN :
          chRow = [messages |-> n, ai_summary |-> JsNull, ai_summary_generated_at |-> JsNull,
                   ai_summary_message_count |-> JsNull, age |-> 0, enabled |-> e]
    /\ smPc = "idle"
    /\ smCount = 0
    /\ smSelected = FALSE
    /\ smRuns = 0
    /\ smSucceeded = FALSE

\* uploader.ts, lines 180-199: an upload replaces the messages of the row
\* and leaves its summary columns alone
SmUpload ==
    /\ \E n \in 1..MaxMessages :
          /\ n # chRow.messages
          /\ chRow' = [chRow EXCEPT !.messages = n]
    /\ UNCHANGED <<coreVars, syncVars, piVars, aiVars, dcVars, dmVars, asVars, smPc, smCount, smSelected,
                   smRuns, smSucceeded>>

\* hours pass
SmClock ==
    /\ chRow.age + HoursPerStep <= MaxAge
    /\ chRow' = [chRow EXCEPT !.age = @ + HoursPerStep]
    /\ UNCHANGED <<coreVars, syncVars, piVars, aiVars, dcVars, dmVars, asVars, smPc, smCount, smSelected,
                   smRuns, smSucceeded>>

\* the user switches AI summaries on or off
SmPreference ==
    /\ chRow' = [chRow EXCEPT !.enabled = ~@]
    /\ UNCHANGED <<coreVars, syncVars, piVars, aiVars, dcVars, dmVars, asVars, smPc, smCount, smSelected,
                   smRuns, smSucceeded>>

\* lines 1114-1130: a run starts and selects the sessions to update
SmSelect ==
    /\ smPc = "idle"
    /\ smRuns < MaxRuns
    /\ smRuns' = smRuns + 1
    /\ smSelected' = NeedsSummaryUpdate(chRow, WithinHours)
    /\ smPc' = IF NeedsSummaryUpdate(chRow, WithinHours) THEN "fetch" ELSE "idle"
    /\ UNCHANGED <<coreVars, syncVars, piVars, aiVars, dcVars, dmVars, asVars, chRow, smCount, smSucceeded>>

\* lines 864-879: updateSessionSummary reads the session
SmFetch ==
    /\ smPc = "fetch"
    /\ smCount' = chRow.messages
    /\ smPc' = IF chRow.messages = 0 THEN "idle" ELSE "generate"
    /\ UNCHANGED <<coreVars, syncVars, piVars, aiVars, dcVars, dmVars, asVars, chRow, smSelected, smRuns,
                   smSucceeded>>

\* lines 882, 899-902: generateSessionSummary returns, or throws
SmGenerate ==
    /\ smPc = "generate"
    /\ \E ok \in BOOLEAN : smPc' = IF ok THEN "write" ELSE "idle"
    /\ UNCHANGED <<coreVars, syncVars, piVars, aiVars, dcVars, dmVars, asVars, chRow, smCount, smSelected,
                   smRuns, smSucceeded>>

\* lines 885-898: the summary is written with the message count that was
\* read, or the update ends in an error
SmWrite ==
    /\ smPc = "write"
    /\ \E ok \in BOOLEAN :
          IF ok
          THEN /\ chRow' = [chRow EXCEPT !.ai_summary = JsString(<<"s">>),
                                         !.ai_summary_generated_at = JsString(IsoFull),
                                         !.ai_summary_message_count =
                                             RecordedCount(smCount, chRow)]
               /\ smSucceeded' = TRUE
          ELSE UNCHANGED <<chRow, smSucceeded>>
    /\ smPc' = "idle"
    /\ UNCHANGED <<coreVars, syncVars, piVars, aiVars, dcVars, dmVars, asVars, smCount, smSelected, smRuns>>

SmNext ==
    SmUpload \/ SmClock \/ SmPreference \/ SmSelect \/ SmFetch \/ SmGenerate \/ SmWrite

SpecSummary == SmInit /\ [][SmNext]_vars

MaxDaemonRuns == 4     \* processHistories runs started

RunsInProgress == {i \in 1..Len(dmRuns) : dmRuns[i] # "done"}

DmInit ==
    /\ now = Now0
    /\ TsIdle
    /\ PfIdle
    /\ PassIdle
    /\ MpIdle
    /\ SyncIdle
    /\ PiIdle
    /\ AiIdle
    /\ DcIdle
    /\ SmIdle
    /\ AsIdle
    /\ dmRuns = <<>>
    /\ dmMain = "start"
    /\ dmAuth \in BOOLEAN

\* line 195: main calls processHistories and waits for it
DmStartup ==
    /\ dmMain = "start"
    /\ dmRuns' = Append(dmRuns, "isAuthenticated")
    /\ dmMain' = "first run"
    /\ UNCHANGED <<coreVars, syncVars, piVars, aiVars, dcVars, smVars, asVars, dmAuth>>

\* lines 198-205: the first run over, main sets the interval timer
DmSetInterval ==
    /\ dmMain = "first run"
    /\ dmRuns[1] = "done"
    /\ dmMain' = "interval"
    /\ UNCHANGED <<coreVars, syncVars, piVars, aiVars, dcVars, smVars, asVars, dmRuns, dmAuth>>

\* lines 202-205: the timer fires and its callback calls processHistories
DmTick ==
    /\ dmMain = "interval"
    /\ Len(dmRuns) < MaxDaemonRuns
    /\ dmRuns' = Append(dmRuns, "isAuthenticated")
    /\ UNCHANGED <<coreVars, syncVars, piVars, aiVars, dcVars, smVars, asVars, dmMain, dmAuth>>

\* lines 119-151: the run is authenticated and goes on to read the
\* histories and to upload them, or it waits for the authentication
DmIsAuthenticated ==
    /\ \E i \in 1..Len(dmRuns) :
          /\ dmRuns[i] = "isAuthenticated"
          /\ dmRuns' = [dmRuns EXCEPT ![i] = IF dmAuth THEN "upload" ELSE "waitForAuth"]
    /\ UNCHANGED <<coreVars, syncVars, piVars, aiVars, dcVars, smVars, asVars, dmMain, dmAuth>>

\* lines 123-129, uploader.ts lines 223-254: the authentication is completed
\* in the browser, or the wait times out and the run returns
DmWaitForAuth ==
    /\ \E i \in 1..Len(dmRuns), completed \in BOOLEAN :
          /\ dmRuns[i] = "waitForAuth"
          /\ dmRuns' = [dmRuns EXCEPT ![i] = IF completed THEN "upload" ELSE "done"]
          /\ dmAuth' = (dmAuth \/ completed)
    /\ UNCHANGED <<coreVars, syncVars, piVars, aiVars, dcVars, smVars, asVars, dmMain>>

\* lines 153-167: syncProjects and uploadAllHistories end
DmUploaded ==
    /\ \E i \in 1..Len(dmRuns) :
          /\ dmRuns[i] = "upload"
          /\ dmRuns' = [dmRuns EXCEPT ![i] = "done"]
    /\ UNCHANGED <<coreVars, syncVars, piVars, aiVars, dcVars, smVars, asVars, dmMain, dmAuth>>

DmNext ==
    DmStartup \/ DmSetInterval \/ DmTick \/ DmIsAuthenticated \/ DmWaitForAuth
        \/ DmUploaded

SpecDaemon == DmInit /\ [][DmNext]_vars

\* C29: at most one processHistories run is in progress at any time; a tick
\* of the periodic sync that fires while a run waits for the authentication
\* or uploads starts no second run.
C29_OneRunAtATime ==
    Cardinality(RunsInProgress) <= 1

(***************************************************************************)
(* SpecActivity: syncEditorActivity (activity-syncer.ts, lines 12-93) on    *)
(* the active_sessions table, which has one row for a user and an editor    *)
(* type (onConflict: 'user_id,editor_type').  A row is "none" when the      *)
(* table has no such row, and else "active" or "inactive" for its is_active.*)
(***************************************************************************)
MaxActivityRuns == 2     \* syncEditorActivity calls

\* line 75: the editor types that are marked inactive
allEditorTypes == <<"cursor", "windsurf", "claude_code", "vscode">>

EditorTypes == {allEditorTypes[i] : i \in DOMAIN allEditorTypes}

\* activity-detector.ts, lines 418-436: one activity for each editor that has
\* left files, in the order of the detectors
RECURSIVE detectAllEditorActivity(_, _, _)
detectAllEditorActivity(types, detected, recent) ==
    IF types = <<>> THEN <<>>
    ELSE LET rest == detectAllEditorActivity(Tail(types), detected, recent)
         IN IF Head(types) \in detected
            THEN <<[editorType |-> Head(types), isActive |-> Head(types) \in recent]>> \o rest
            ELSE rest

\* lines 46-60: the upserts of the activities, the ones of failedUpserts
\* answered with an error
UpsertActivities(rows, userId, activities, failedUpserts) ==
    [key \in DOMAIN rows |->
        LET Matching == {i \in DOMAIN activities :
                            /\ key = <<userId, activities[i].editorType>>
                            /\ activities[i].editorType \notin failedUpserts}
        IN IF Matching = {} THEN rows[key]
           ELSE LET activity == activities[CHOOSE i \in Matching : TRUE]
                IN IF activity.isActive THEN "active" ELSE "inactive"]

\* lines 73-92: the update of the rows of the editors without activity
MarkInactive(rows, userId, activities, updateFails) ==
    LET detectedEditorTypes == {activities[i].editorType : i \in DOMAIN activities}
        inactiveEditorTypes == {type \in EditorTypes : type \notin detectedEditorTypes}
    IN IF inactiveEditorTypes # {} /\ ~updateFails
       THEN [key \in DOMAIN rows |->
                IF key[1] = userId /\ key[2] \in inactiveEditorTypes /\ rows[key] # "none"
                THEN "inactive" ELSE rows[key]]
       ELSE rows

syncEditorActivity(rows, userId, activities, failedUpserts, updateFails) ==
    IF Len(activities) = 0 THEN rows
    ELSE MarkInactive(UpsertActivities(rows, userId, activities, failedUpserts),
                      userId, activities, updateFails)

AsInit ==
    /\ now = Now0
    /\ TsIdle
    /\ PfIdle
    /\ PassIdle
    /\ MpIdle
    /\ SyncIdle
    /\ PiIdle
    /\ AiIdle
    /\ DcIdle
    /\ SmIdle
    /\ DmIdle
    /\ active_sessions = [key \in Accounts \X EditorTypes |-> "none"]
    /\ asUserId = JsNull
    /\ asActivities = <<>>
    /\ asRuns = 0

AsCall ==
    /\ asRuns < MaxActivityRuns
    /\ \E userId \in Accounts, detected \in SUBSET EditorTypes, updateFails \in BOOLEAN :
          \E recent \in SUBSET detected, failedUpserts \in SUBSET detected :
             LET activities == detectAllEditorActivity(allEditorTypes, detected, recent)
             IN /\ asUserId' = userId
                /\ asActivities' = activities
                /\ active_sessions' = syncEditorActivity(active_sessions, userId, activities,
                                                         failedUpserts, updateFails)
    /\ asRuns' = asRuns + 1
    /\ UNCHANGED <<coreVars, syncVars, piVars, aiVars, dcVars, smVars, dmVars>>

AsNext == AsCall

SpecActivity == AsInit /\ [][AsNext]_vars

\* C30: after a syncEditorActivity run for a user, every known editor type for
\* which the run detected no activity has no row of that user with
\* is_active = true.
C30_UndetectedAreInactive ==
    asRuns > 0 =>
        \A type \in EditorTypes :
            (\A i \in DOMAIN asActivities : asActivities[i].editorType # type)
                => active_sessions[<<asUserId, type>>] # "active"

====
